---- MODULE Spec2Model ----
(***************************************************************************)
(* Model of the fleet telemetry simulator: the VehicleAgent state machine  *)
(* (data_generator/vehicle.py) and the SimulationEngine run loop           *)
(* (data_generator/core/simulation_engine.py).                             *)
(*                                                                         *)
(* Numbers.  The code computes with floats; the model computes the same    *)
(* quantities exactly, as integers in fixed units:                         *)
(*   progress_on_edge, distances, coordinates : 1/3600 of an edge (km)     *)
(*   fuel_liters                              : 1/FuelScale of a liter     *)
(*   probabilities and random() draws         : percent                    *)
(*   theft percentage draws                   : 1/1000 of a percent        *)
(*   rounded outputs (round(x, 2))            : 1/100 of the unit          *)
(*   rounded coordinates (round(x, 6))        : 1/1000000 of a degree      *)
(***************************************************************************)
EXTENDS Integers, Sequences, FiniteSets, TLC

\* ---------------------------------------------------------------- bounds
\* Ticks of one behaviour of the single-vehicle harness.
MaxTicks == 5
\* Ticks of one trip followed to its end.
MaxTripTicks == 47
\* Longest run (simulated minutes) run_simulation is asked for.
MaxDurationMinutes == 3
\* Ticks of one behaviour of the single vehicle under management.
MaxLifecycleTicks == 2
\* Ticks of the longest run after which a second run_simulation call is
\* followed.
MaxFirstRunTicks == 1
\* Scheduled process_telemetry_async tasks that have not run yet, at most.
MaxPendingTasks == 2
\* Readings stored or waiting to be stored by the ingestion service.
MaxStoredReadings == 4
\* Passes of the vehicle loop one vehicle is followed through.
MaxPasses == 12
\* Ticks of the longest run that is interrupted.
MaxInterruptedRunTicks == 2
\* The widest grid the queries of GridWorld are followed on.
MaxGridWidth == 3
\* The largest fleet create_vehicle_fleet is asked for on its own.
MaxFleetSize == 10
\* Ticks of the longest run in which a tick() raises.
MaxFaultRunTicks == 2

\* ------------------------------------------------------ program constants
SecondsPerHour == 3600
EDGE_LENGTH_KM == 1
IDLE_CONSUMPTION_LPH_TENTHS == 8
DEFAULT_SPEED_KPH == 60
POSITION_TOLERANCE_E5 == 99999
IDLE_MIN_SECONDS == 120
IDLE_MAX_SECONDS == 600
DEFAULT_MILEAGE_KMPL == 4
DEFAULT_TANK_CAPACITY_LITERS == 500
DEFAULT_REFUELING_THRESHOLD_PCT == 20

\* ------------------------------------------------------------------ units
ProgressScale == SecondsPerHour * EDGE_LENGTH_KM
FuelScale == SecondsPerHour * 500
ToleranceScale == 100 * 1000

\* ----------------------------------------------------------- input domains
\* Tick sizes used by the callers: 30 s and 60 s.
Deltas == {30, 60}
\* Trip speeds (kph): half an edge, one edge and two edges per tick.
Speeds == {60, 120}
\* Values of random.random(), in percent of 1.
UDraws == {5, 50}
\* Values of random.randint(120, 600).
TimerDraws == {125, IDLE_MAX_SECONDS}
\* Tank capacities (liters) given to the constructor.
TankCapacities == {1, DEFAULT_TANK_CAPACITY_LITERS}
\* Behavioural profiles: the "opportunist" of simulator.py (default theft
\* range) and a profile that always stops and steals 40..60 %.
Opportunist ==
  [p_stop_at_node |-> 15, p_theft_given_stop |-> 40,
   theft_pct_min |-> 1000, theft_pct_max |-> 15000]
FuelThief ==
  [p_stop_at_node |-> 100, p_theft_given_stop |-> 100,
   theft_pct_min |-> 40000, theft_pct_max |-> 60000]
Profiles == { Opportunist, FuelThief }
\* Values of random.uniform(min, max) for a profile: both ends and an
\* interior point that does not fall on a hundredth of a liter.
TheftPctDraws(p) ==
  { p.theft_pct_min, p.theft_pct_min + 234, p.theft_pct_max }
\* Routes: shortest paths of a 3 x 3 grid, nodes are <<x, y>>.
GoodRoutes ==
  { << <<0, 0>>, <<1, 0>> >>,
    << <<0, 0>>, <<1, 0>>, <<2, 0>> >>,
    << <<2, 1>>, <<1, 1>>, <<0, 1>>, <<0, 2>> >> }
\* Routes of fewer than two nodes.
ShortRoutes == { << >>, << <<1, 1>> >> }
Timestamps == {0}

\* ------------------------------------------------------------- arithmetic
Max(a, b) == IF a >= b THEN a ELSE b
Min(a, b) == IF a <= b THEN a ELSE b

\* round(num / den) as Python's round does on an exact value: to nearest,
\* ties to even.  num >= 0, den > 0.
RoundHalfEven(num, den) ==
  LET q == num \div den
      r == num % den
  IN  IF 2 * r < den THEN q
      ELSE IF 2 * r > den THEN q + 1
      ELSE IF q % 2 = 0 THEN q ELSE q + 1

\* --------------------------------------------------------------- vehicle
NoAnomaly == [event_type |-> "NONE"]
NoReading == [vehicle_id |-> "NONE"]

\* VehicleAgent.__init__
NewVehicle(id, profile, cap) ==
  [ vehicle_id |-> id,
    behavioral_profile |-> profile,
    tank_capacity_liters |-> cap,
    mileage_kmpl |-> DEFAULT_MILEAGE_KMPL,
    fuel_liters |-> cap * FuelScale,
    refueling_threshold |-> DEFAULT_REFUELING_THRESHOLD_PCT,
    state |-> "PARKED",
    speed_kph |-> 0,
    state_timer_seconds |-> 0,
    route |-> << >>,
    current_edge_index |-> 0,
    progress_on_edge |-> 0 ]

\* VehicleAgent.fuel_percentage, rounded to 2 decimals (1/100 percent).
FuelPercentageRounded(v) ==
  RoundHalfEven(v.fuel_liters, v.tank_capacity_liters * (FuelScale \div 10000))

\* Mutant: a new trip starts at the edge index of the trip before it.
AssignNewTripV_KeepsIndex(v, route, speed) ==
  IF Len(route) < 2
  THEN [v EXCEPT !.state = "PARKED", !.speed_kph = 0, !.route = << >>]
  ELSE [v EXCEPT !.route = route,
                 !.progress_on_edge = 0,
                 !.speed_kph = speed,
                 !.state = "DRIVING",
                 !.state_timer_seconds = 0]

\* VehicleAgent.assign_new_trip
AssignNewTripV(v, route, speed) ==
  IF Len(route) < 2
  THEN [v EXCEPT !.state = "PARKED", !.speed_kph = 0, !.route = << >>]
  ELSE [v EXCEPT !.route = route,
                 !.current_edge_index = 0,
                 !.progress_on_edge = 0,
                 !.speed_kph = speed,
                 !.state = "DRIVING",
                 !.state_timer_seconds = 0]

\* Mutant: the tank is filled and the vehicle goes on as it was.
RefuelV_KeepsMoving(v) ==
  [v EXCEPT !.fuel_liters = v.tank_capacity_liters * FuelScale]

\* VehicleAgent.refuel
RefuelV(v) ==
  [v EXCEPT !.fuel_liters = v.tank_capacity_liters * FuelScale,
            !.state = "PARKED",
            !.speed_kph = 0]

\* Mutant: the vehicle resumes without its speed being restored.
ResumeDriving_KeepsSpeed(v) ==
  [v EXCEPT !.state = "DRIVING"]

\* VehicleAgent._resume_driving
ResumeDriving(v) ==
  [v EXCEPT !.state = "DRIVING", !.speed_kph = DEFAULT_SPEED_KPH]

\* Mutant: the countdown resumes driving only below 0, which the floor at 0
\* never lets it reach.
UpdateTimedStates_NeverResumes(v, delta) ==
  IF v.state = "IDLING" /\ v.state_timer_seconds > 0
  THEN LET t == Max(0, v.state_timer_seconds - delta)
           w == [v EXCEPT !.state_timer_seconds = t]
       IN  IF t < 0 THEN ResumeDriving(w) ELSE w
  ELSE v

\* VehicleAgent.tick, step 1: the idle countdown.
UpdateTimedStates(v, delta) ==
  IF v.state = "IDLING" /\ v.state_timer_seconds > 0
  THEN LET t == Max(0, v.state_timer_seconds - delta)
           w == [v EXCEPT !.state_timer_seconds = t]
       IN  IF t <= 0 THEN ResumeDriving(w) ELSE w
  ELSE v

\* VehicleAgent._has_active_route
HasActiveRoute(v) ==
  Len(v.route) >= 2 /\ v.current_edge_index < Len(v.route) - 1

\* VehicleAgent._stop_vehicle
StopVehicle(v) ==
  [v EXCEPT !.state = "PARKED", !.speed_kph = 0]

\* Mutant: the progress on the edge is not capped at the edge's end.
ApplyDrivingPhysics_Uncapped(v, delta) ==
  IF ~HasActiveRoute(v)
  THEN [v |-> StopVehicle(v), distance |-> 0]
  ELSE LET distance_km == v.speed_kph * delta
           progress_gained == distance_km \div EDGE_LENGTH_KM
       IN  [v |-> [v EXCEPT !.progress_on_edge =
                      v.progress_on_edge + progress_gained],
            distance |-> distance_km]

\* VehicleAgent._apply_driving_physics: the vehicle and the distance it
\* reports as traveled (1/3600 km).
ApplyDrivingPhysics(v, delta) ==
  IF ~HasActiveRoute(v)
  THEN [v |-> StopVehicle(v), distance |-> 0]
  ELSE LET distance_km == v.speed_kph * delta
           progress_gained == distance_km \div EDGE_LENGTH_KM
       IN  [v |-> [v EXCEPT !.progress_on_edge =
                      Min(v.progress_on_edge + progress_gained, ProgressScale)],
            distance |-> distance_km]

\* VehicleAgent._apply_stationary_physics
ApplyStationaryPhysics(v) ==
  [v EXCEPT !.speed_kph = 0]

\* Mutant: every vehicle that is not driving burns idle fuel.
LitersConsumed_ParkedIdles(v, distance, delta) ==
  IF v.state = "DRIVING" /\ distance > 0
  THEN distance * (FuelScale \div (SecondsPerHour * v.mileage_kmpl))
  ELSE IDLE_CONSUMPTION_LPH_TENTHS * delta * (FuelScale \div (10 * SecondsPerHour))

\* Liters consumed by _update_fuel_consumption (fuel units).
LitersConsumed(v, distance, delta) ==
  IF v.state = "DRIVING" /\ distance > 0
  THEN distance * (FuelScale \div (SecondsPerHour * v.mileage_kmpl))
  ELSE IF v.state = "IDLING"
  THEN IDLE_CONSUMPTION_LPH_TENTHS * delta * (FuelScale \div (10 * SecondsPerHour))
  ELSE 0

\* Mutant: the consumption is added to the fuel level.
UpdateFuelConsumption_Adds(v, distance, delta) ==
  [v EXCEPT !.fuel_liters = Max(0, v.fuel_liters + LitersConsumed(v, distance, delta))]

\* VehicleAgent._update_fuel_consumption
UpdateFuelConsumption(v, distance, delta) ==
  [v EXCEPT !.fuel_liters = Max(0, v.fuel_liters - LitersConsumed(v, distance, delta))]

\* VehicleAgent._has_reached_node
HasReachedNode(v) ==
  v.progress_on_edge * ToleranceScale >= POSITION_TOLERANCE_E5 * ProgressScale

\* Mutant: the final edge is taken to be one further on.
IsAtFinalDestination_OffByOne(v) ==
  v.current_edge_index >= Len(v.route) - 1

\* VehicleAgent._is_at_final_destination
IsAtFinalDestination(v) ==
  v.current_edge_index >= Len(v.route) - 2

\* Mutant: the trip is completed at the speed it was driven at.
CompleteTrip_KeepsSpeed(v) ==
  [v EXCEPT !.state = "PARKED"]

\* VehicleAgent._complete_trip
CompleteTrip(v) ==
  [v EXCEPT !.state = "PARKED", !.speed_kph = 0]

\* Mutant: the next edge is entered with the progress of the last one.
AdvanceToNextEdge_KeepsProgress(v) ==
  [v EXCEPT !.current_edge_index = v.current_edge_index + 1]

\* VehicleAgent._advance_to_next_edge
AdvanceToNextEdge(v) ==
  [v EXCEPT !.current_edge_index = v.current_edge_index + 1,
            !.progress_on_edge = 0]

\* Mutant: the percentage is taken of the fuel left, not of the capacity.
LitersStolen_OfFuelLeft(v, theft_pct) ==
  theft_pct * (v.fuel_liters \div (100 * 1000))

\* Liters taken by a theft of theft_pct (1/1000 percent) of the tank.
LitersStolen(v, theft_pct) ==
  theft_pct * v.tank_capacity_liters * (FuelScale \div (100 * 1000))

\* Mutant: the theft is not floored at an empty tank.
PerformFuelTheft_NoFloor(v, timestamp, theft_pct) ==
  LET liters_stolen == LitersStolen(v, theft_pct)
      w == [v EXCEPT !.fuel_liters = v.fuel_liters - liters_stolen]
  IN  [v |-> w,
       anomaly |->
         [vehicle_id |-> v.vehicle_id,
          timestamp |-> timestamp,
          event_type |-> "FUEL_THEFT",
          liters_stolen |-> RoundHalfEven(liters_stolen, FuelScale \div 100),
          fuel_pct_before |-> FuelPercentageRounded(v),
          fuel_pct_after |-> 0,
          theft_percentage |-> RoundHalfEven(theft_pct, 10)],
       theft |-> [fuel_before |-> v.fuel_liters, liters |-> liters_stolen]]

NoTheft == [fuel_before |-> -1, liters |-> -1]

\* VehicleAgent._perform_fuel_theft: the vehicle and the AnomalyEvent.
PerformFuelTheft(v, timestamp, theft_pct) ==
  LET liters_stolen == LitersStolen(v, theft_pct)
      w == [v EXCEPT !.fuel_liters = Max(0, v.fuel_liters - liters_stolen)]
  IN  [v |-> w,
       anomaly |->
         [vehicle_id |-> v.vehicle_id,
          timestamp |-> timestamp,
          event_type |-> "FUEL_THEFT",
          liters_stolen |-> RoundHalfEven(liters_stolen, FuelScale \div 100),
          fuel_pct_before |-> FuelPercentageRounded(v),
          fuel_pct_after |-> FuelPercentageRounded(w),
          theft_percentage |-> RoundHalfEven(theft_pct, 10)],
       theft |-> [fuel_before |-> v.fuel_liters, liters |-> liters_stolen]]

\* Mutant: every stop is a theft, whatever the theft draw.
InitiateStop_AlwaysTheft(v, timestamp, d) ==
  LET w == [v EXCEPT !.state = "IDLING",
                     !.speed_kph = 0,
                     !.state_timer_seconds = d.timer]
  IN  PerformFuelTheft(w, timestamp, d.theft_pct)

\* VehicleAgent._initiate_stop.  d holds the random draws of the tick.
InitiateStop(v, timestamp, d) ==
  LET w == [v EXCEPT !.state = "IDLING",
                     !.speed_kph = 0,
                     !.state_timer_seconds = d.timer]
  IN  IF d.u_theft < v.behavioral_profile.p_theft_given_stop
      THEN PerformFuelTheft(w, timestamp, d.theft_pct)
      ELSE [v |-> w, anomaly |-> NoAnomaly, theft |-> NoTheft]

\* Mutant: the stop is decided before the vehicle advances to the next
\* edge, and a stopping vehicle does not advance.
HandleIntermediateArrival_StopFirst(v, timestamp, d) ==
  IF d.u_stop < v.behavioral_profile.p_stop_at_node
  THEN InitiateStop(v, timestamp, d)
  ELSE [v |-> AdvanceToNextEdge(v), anomaly |-> NoAnomaly, theft |-> NoTheft]

\* VehicleAgent._handle_intermediate_arrival
HandleIntermediateArrival(v, timestamp, d) ==
  LET w == AdvanceToNextEdge(v)
  IN  IF d.u_stop < v.behavioral_profile.p_stop_at_node
      THEN InitiateStop(w, timestamp, d)
      ELSE [v |-> w, anomaly |-> NoAnomaly, theft |-> NoTheft]

\* VehicleAgent._check_and_handle_arrivals
CheckAndHandleArrivals(v, timestamp, d) ==
  IF ~HasReachedNode(v)
  THEN [v |-> v, anomaly |-> NoAnomaly, theft |-> NoTheft]
  ELSE IF IsAtFinalDestination(v)
  THEN [v |-> CompleteTrip(v), anomaly |-> NoAnomaly, theft |-> NoTheft]
  ELSE HandleIntermediateArrival(v, timestamp, d)

\* VehicleAgent._calculate_coordinates: the pair the method returns, in
\* 1/3600 of a grid unit.  Route nodes are (lon, lat); the interpolating
\* branch returns (lat, lon), the route-end branch returns the node as is.
CalculateCoordinates(v) ==
  IF v.route = << >> \/ v.current_edge_index >= Len(v.route) - 1
  THEN IF v.route # << >>
       THEN << v.route[Len(v.route)][1] * ProgressScale,
               v.route[Len(v.route)][2] * ProgressScale >>
       ELSE << 0, 0 >>
  ELSE LET start_node == v.route[v.current_edge_index + 1]
           end_node == v.route[v.current_edge_index + 2]
           lon0 == start_node[1]
           lat0 == start_node[2]
           lon1 == end_node[1]
           lat1 == end_node[2]
           progress == Min(v.progress_on_edge, ProgressScale)
           lon == lon0 * ProgressScale + progress * (lon1 - lon0)
           lat == lat0 * ProgressScale + progress * (lat1 - lat0)
       IN  << lat, lon >>

\* round(x, 6) of a coordinate given in 1/3600: millionths.
RoundCoordinate(c) ==
  RoundHalfEven(c * (1000000 \div 400), ProgressScale \div 400)

\* VehicleAgent._create_telemetry_reading
CreateTelemetryReading(v, timestamp) ==
  LET c == CalculateCoordinates(v)
  IN  [vehicle_id |-> v.vehicle_id,
       timestamp |-> timestamp,
       latitude |-> RoundCoordinate(c[1]),
       longitude |-> RoundCoordinate(c[2]),
       speed_kph |-> v.speed_kph * 100,
       fuel_percentage |-> FuelPercentageRounded(v)]

\* Mutant: physics and fuel are worked out for the state the vehicle had
\* when the tick began, and the idle countdown comes after them.
TickPhysics_CountdownLast(v, delta) ==
  LET ph == IF v.state = "DRIVING"
            THEN ApplyDrivingPhysics(v, delta)
            ELSE IF v.state \in {"IDLING", "PARKED"}
            THEN [v |-> ApplyStationaryPhysics(v), distance |-> 0]
            ELSE [v |-> v, distance |-> 0]
      v2 == UpdateFuelConsumption(ph.v, ph.distance, delta)
  IN  [v |-> UpdateTimedStates(v2, delta),
       distance |-> ph.distance]

\* VehicleAgent.tick, steps 1 to 3: idle countdown, physics, fuel.
TickPhysics(v, delta) ==
  LET v1 == UpdateTimedStates(v, delta)
      ph == IF v1.state = "DRIVING"
            THEN ApplyDrivingPhysics(v1, delta)
            ELSE IF v1.state \in {"IDLING", "PARKED"}
            THEN [v |-> ApplyStationaryPhysics(v1), distance |-> 0]
            ELSE [v |-> v1, distance |-> 0]
  IN  [v |-> UpdateFuelConsumption(ph.v, ph.distance, delta),
       distance |-> ph.distance]

\* Mutant: a DRIVING vehicle with an empty tank stands where it is.
TickV_EmptyTankStands(v, timestamp, delta, d) ==
  LET ph == IF v.state = "DRIVING" /\ v.fuel_liters = 0
            THEN [v |-> v, distance |-> 0]
            ELSE TickPhysics(v, delta)
      ar == IF ph.v.state = "DRIVING"
            THEN CheckAndHandleArrivals(ph.v, timestamp, d)
            ELSE [v |-> ph.v, anomaly |-> NoAnomaly, theft |-> NoTheft]
  IN  [v |-> ar.v,
       telemetry |-> CreateTelemetryReading(ar.v, timestamp),
       anomaly |-> ar.anomaly,
       theft |-> ar.theft,
       distance |-> ph.distance]

\* VehicleAgent.tick for delta > 0: the vehicle after the tick, the reading
\* and the anomaly it returns.
TickV(v, timestamp, delta, d) ==
  LET ph == TickPhysics(v, delta)
      ar == IF ph.v.state = "DRIVING"
            THEN CheckAndHandleArrivals(ph.v, timestamp, d)
            ELSE [v |-> ph.v, anomaly |-> NoAnomaly, theft |-> NoTheft]
  IN  [v |-> ar.v,
       telemetry |-> CreateTelemetryReading(ar.v, timestamp),
       anomaly |-> ar.anomaly,
       theft |-> ar.theft,
       distance |-> ph.distance]

\* The random draws a tick consumes.  random.random() is sampled for the
\* stop only on arrival at an intermediate node, randint and the second
\* random.random() only when the stop is taken, uniform only when the theft
\* is; a draw that is not sampled is recorded as NotDrawn.
NotDrawn == 100
SamplesStop(v, delta) ==
  LET w == TickPhysics(v, delta).v
  IN  w.state = "DRIVING" /\ HasReachedNode(w) /\ ~IsAtFinalDestination(w)
TickDraws(v, delta) ==
  LET p == v.behavioral_profile
      none == { [delta |-> delta, u_stop |-> NotDrawn, timer |-> NotDrawn,
                 u_theft |-> NotDrawn, theft_pct |-> NotDrawn] }
  IN  IF ~SamplesStop(v, delta) THEN none
      ELSE { [delta |-> delta, u_stop |-> us, timer |-> NotDrawn,
              u_theft |-> NotDrawn, theft_pct |-> NotDrawn] :
               us \in {u \in UDraws : ~(u < p.p_stop_at_node)} }
           \cup
           { [delta |-> delta, u_stop |-> us, timer |-> tm,
              u_theft |-> ut, theft_pct |-> NotDrawn] :
               us \in {u \in UDraws : u < p.p_stop_at_node},
               tm \in TimerDraws,
               ut \in {u \in UDraws : ~(u < p.p_theft_given_stop)} }
           \cup
           { [delta |-> delta, u_stop |-> us, timer |-> tm,
              u_theft |-> ut, theft_pct |-> pct] :
               us \in {u \in UDraws : u < p.p_stop_at_node},
               tm \in TimerDraws,
               ut \in {u \in UDraws : u < p.p_theft_given_stop},
               pct \in TheftPctDraws(p) }

\* ------------------------------------------------- single-vehicle harness
\* One VehicleAgent driven by a caller through its public operations.
\*   veh       the agent
\*   pre       the agent as it was when the last tick began (the agent
\*             itself after any other operation)
\*   op        the last operation
\*   inp       the delta and the random draws of the last tick
\*   telemetry, anomaly   what the last tick returned
\*   theft     fuel before and liters drawn of the theft of the last tick
\*   ticks     number of ticks so far
\*   time_step_seconds    the caller's tick size
\*   trip      of the trip being followed to its end: the speed it was
\*             assigned at and the number of stops taken on it so far
VARIABLES veh, pre, telemetry, anomaly, theft, op, inp, ticks,
          time_step_seconds, trip

\* The SimulationEngine, its world and the locals of its run_simulation.
\*   vehicles, telemetry_log, anomaly_log   the engine's fields
\*   refueling_stations                     the world's stations, in order
\*   pc                 where the engine is: "engine" (constructed, no run
\*                      yet), "vehicles" (in the vehicle loop of a tick),
\*                      "flush" (after the vehicle loop), "final" (after
\*                      the tick loop), "done" (returned), "raised"
\*   tick, vidx         the tick of the loop and the next vehicle (1-based)
\*   current_sim_time   seconds since sim_start_time
\*   total_simulation_ticks, batch_size, telemetry_buffer   locals
\*   duration_minutes   the duration the run was asked for
\*   sink               the readings handed to stream_telemetry_batch so far
\*   stats              the DataStreamHandler's counters
\*   last_send          the readings and the reported status of the latest
\*                      batch posted by stream_telemetry_batch
\*   faults             the passes <<tick, vidx>> of the run in which tick()
\*                      raised
\*   sim_start_time     what datetime.now() returned at the start of the
\*                      run, in seconds counted from that clock read
\*   anomaly_sink       the anomalies handed to stream_anomaly_event so
\*                      far, in the order of the calls
\*   replay             a second run of the same fleet with the same
\*                      parameters and the same random draws: its
\*                      sim_start_time, vehicles and logs
VARIABLES vehicles, refueling_stations, telemetry_log, anomaly_log,
          telemetry_buffer, pc, tick, vidx, current_sim_time,
          total_simulation_ticks, batch_size, stats, last_send, faults,
          duration_minutes, sink, sim_start_time, replay, anomaly_sink

\* The ingestion service (api/ingestion.py).
\*   telemetry_store    the module's list of stored readings
\*   background_tasks   the process_telemetry_async tasks that /ingest has
\*                      scheduled and that have not run yet, each the
\*                      list of readings it was given
VARIABLES telemetry_store, background_tasks

ingest_vars == << telemetry_store, background_tasks >>

replay_vars == << sim_start_time, replay >>

harness_vars ==
  << veh, pre, telemetry, anomaly, theft, op, inp, ticks, trip >>

engine_vars == << vehicles, refueling_stations, telemetry_log, anomaly_log,
                  telemetry_buffer, pc, tick, vidx, current_sim_time,
                  total_simulation_ticks, batch_size, stats, last_send,
                  faults, duration_minutes, sink, replay_vars,
                  anomaly_sink, ingest_vars >>

vars == << harness_vars, time_step_seconds, engine_vars >>

NoStats == [total_batches_sent |-> 0, total_readings_sent |-> 0,
            successful_requests |-> 0, failed_requests |-> 0,
            total_errors |-> 0]
NoSend == [readings |-> << >>, status |-> "NONE"]
NoReplay == [sim_start_time |-> 0, vehicles |-> << >>,
             telemetry_log |-> << >>, anomaly_log |-> << >>]

\* SimulationEngine.__init__ and a handler that has sent nothing.
NewEngine ==
  /\ vehicles = << >>
  /\ telemetry_log = << >>
  /\ anomaly_log = << >>
  /\ telemetry_buffer = << >>
  /\ pc = "engine"
  /\ tick = 0
  /\ vidx = 0
  /\ current_sim_time = 0
  /\ total_simulation_ticks = 0
  /\ batch_size = 0
  /\ stats = NoStats
  /\ last_send = NoSend
  /\ faults = {}
  /\ duration_minutes = 0
  /\ sink = {}
  /\ sim_start_time = 0
  /\ replay = NoReplay
  /\ anomaly_sink = << >>
  /\ telemetry_store = << >>
  /\ background_tasks = << >>

NoInput == [delta |-> 0, u_stop |-> NotDrawn, timer |-> NotDrawn,
            u_theft |-> NotDrawn, theft_pct |-> NotDrawn]
NoTrip == [speed |-> 0, stops |-> 0]

Init ==
  /\ \E p \in Profiles, cap \in TankCapacities :
       veh = NewVehicle("V-1", p, cap)
  /\ pre = veh
  /\ time_step_seconds \in Deltas
  /\ telemetry = NoReading
  /\ anomaly = NoAnomaly
  /\ theft = NoTheft
  /\ op = "init"
  /\ inp = NoInput
  /\ ticks = 0
  /\ trip = NoTrip
  /\ refueling_stations = << >>
  /\ NewEngine

\* A caller assigns a trip (in any state of the vehicle).
AssignNewTrip ==
  /\ \E r \in GoodRoutes \cup ShortRoutes, s \in Speeds :
       veh' = AssignNewTripV(veh, r, s)
  /\ pre' = veh'
  /\ op' = "assign_new_trip"
  /\ telemetry' = NoReading
  /\ anomaly' = NoAnomaly
  /\ theft' = NoTheft
  /\ inp' = NoInput
  /\ UNCHANGED << ticks, time_step_seconds, trip, engine_vars >>

\* A caller refuels the vehicle (in any state of the vehicle).
Refuel ==
  /\ veh' = RefuelV(veh)
  /\ pre' = veh'
  /\ op' = "refuel"
  /\ telemetry' = NoReading
  /\ anomaly' = NoAnomaly
  /\ theft' = NoTheft
  /\ inp' = NoInput
  /\ UNCHANGED << ticks, time_step_seconds, trip, engine_vars >>

\* tick(timestamp, time_step_seconds) with the draws it consumes.
TickStep ==
  \E ts \in Timestamps :
    \E d \in TickDraws(veh, time_step_seconds) :
      \E r \in {TickV(veh, ts, time_step_seconds, d)} :
        /\ veh' = r.v
        /\ pre' = veh
        /\ telemetry' = r.telemetry
        /\ anomaly' = r.anomaly
        /\ theft' = r.theft
        /\ inp' = d
        /\ op' = "tick"
        /\ UNCHANGED << time_step_seconds, engine_vars >>

\* A caller ticks the vehicle with a positive delta.
Tick ==
  /\ ticks < MaxTicks
  /\ ticks' = ticks + 1
  /\ TickStep
  /\ UNCHANGED trip

Next == AssignNewTrip \/ Refuel \/ Tick

Spec == Init /\ [][Next]_vars

\* ------------------------------------------------------ one trip to its end
\* A fresh vehicle is assigned a route of at least two nodes at a positive
\* speed and is then only ticked with a fixed delta, as the loop of
\* run_simulation in simulator.py does; ticks counts the ticks of the trip.
TripInit ==
  /\ \E p \in Profiles, cap \in TankCapacities, r \in GoodRoutes, s \in Speeds :
       /\ veh = AssignNewTripV(NewVehicle("V-1", p, cap), r, s)
       /\ trip = [speed |-> s, stops |-> 0]
  /\ pre = veh
  /\ time_step_seconds \in Deltas
  /\ telemetry = NoReading
  /\ anomaly = NoAnomaly
  /\ theft = NoTheft
  /\ op = "assign_new_trip"
  /\ inp = NoInput
  /\ ticks = 0
  /\ refueling_stations = << >>
  /\ NewEngine

TripTick ==
  /\ ticks < MaxTripTicks
  /\ ticks' = ticks + 1
  /\ TickStep
  /\ trip' = IF inp'.timer # NotDrawn
             THEN [trip EXCEPT !.stops = @ + 1]
             ELSE trip

TripNext == TripTick

TripSpec == TripInit /\ [][TripNext]_vars

\* A trip begun on an empty tank: the fleet is never refueled, so a vehicle
\* whose tank has run empty is assigned its next trips with fuel_liters = 0
\* (_update_fuel_consumption leaves the level at max(0, ...)).
EmptyTankInit ==
  /\ \E p \in Profiles, cap \in TankCapacities, r \in GoodRoutes, s \in Speeds :
       /\ veh = AssignNewTripV(
                  [NewVehicle("V-1", p, cap) EXCEPT !.fuel_liters = 0], r, s)
       /\ trip = [speed |-> s, stops |-> 0]
  /\ pre = veh
  /\ time_step_seconds \in Deltas
  /\ telemetry = NoReading
  /\ anomaly = NoAnomaly
  /\ theft = NoTheft
  /\ op = "assign_new_trip"
  /\ inp = NoInput
  /\ ticks = 0
  /\ refueling_stations = << >>
  /\ NewEngine

EmptyTankSpec == EmptyTankInit /\ [][TripNext]_vars

\* ------------------------------------------------------------------ world
\* GridWorld(width, height, n): nodes are <<x, y>> with 0 <= x < width and
\* 0 <= y < height.  The world of the runs is one row of five nodes, so
\* that shortest paths are unique and routes of five nodes exist.
GridWidth == 5
GridHeight == 1
Nodes == { <<x, y>> : x \in 0 .. GridWidth - 1, y \in 0 .. GridHeight - 1 }

Abs(n) == IF n >= 0 THEN n ELSE 0 - n

\* nx.single_source_shortest_path_length on the grid.
PathLength(a, b) == Abs(a[1] - b[1]) + Abs(a[2] - b[2])

\* nx.shortest_path between two nodes of one row.
ShortestPath(a, b) ==
  LET step == IF b[1] >= a[1] THEN 1 ELSE 0 - 1
  IN  [i \in 1 .. PathLength(a, b) + 1 |-> <<a[1] + step * (i - 1), a[2]>>]

\* Station lists random.sample places.
StationPlacements == { << <<2, 0>> >> }

NoRoute == << >>

\* GridWorld.get_random_route: what one call can return, None as NoRoute.
\* Each of the 10 tries samples two distinct nodes; the first shortest
\* path of at least min_distance nodes is returned, None when all 10 fail.
GetRandomRoute(min_distance) ==
  LET pairs  == { p \in Nodes \X Nodes : p[1] # p[2] }
      routes == { ShortestPath(p[1], p[2]) : p \in pairs }
      long   == { r \in routes : Len(r) >= min_distance }
  IN  long \cup (IF long # routes THEN {NoRoute} ELSE {})

\* GridWorld.find_nearest_refueling_station for a non-empty station list:
\* min() keeps the first station of the list among the closest ones.
FindNearestRefuelingStation(stations, start_node) ==
  LET dist(i) == PathLength(start_node, stations[i])
      best == CHOOSE i \in 1 .. Len(stations) :
                /\ \A j \in 1 .. Len(stations) : dist(i) <= dist(j)
                /\ \A j \in 1 .. i - 1 : dist(j) > dist(i)
  IN  [station |-> stations[best],
       route |-> ShortestPath(start_node, stations[best])]

\* ----------------------------------------------------------------- engine
\* VehicleAgent.needs_refueling: fuel_percentage <= refueling_threshold.
NeedsRefueling(v) ==
  v.fuel_liters <=
    v.refueling_threshold * v.tank_capacity_liters * (FuelScale \div 100)

\* Fuel units that carry a vehicle one km of the 90 % range of
\* _assign_random_trip: distance <= fuel_liters * mileage * 0.9.
RangeUnitsPerKm(v) == ((FuelScale \div 9) * 10) \div v.mileage_kmpl

\* min(5, int(max_fuel_range_km * 0.1))
MinDistance(v) == Min(5, v.fuel_liters \div (RangeUnitsPerKm(v) * 10))

\* Mutant: the whole fuel range counts, without the 10 % buffer.
WithinFuelRange_WholeRange(v, route) ==
  (Len(route) - 1) * (FuelScale \div v.mileage_kmpl) <= v.fuel_liters

\* route_distance_km <= max_fuel_range_km
WithinFuelRange(v, route) ==
  (Len(route) - 1) * RangeUnitsPerKm(v) <= v.fuel_liters

\* Mutant: a vehicle that is at the station already is refueled there.
AssignRefuelingTrip_RefuelsAtStation(v, stations) ==
  LET positions == IF v.route # << >> THEN { v.route[Len(v.route)] }
                   ELSE Nodes
  IN  IF stations = << >> THEN { v }
      ELSE { LET r == FindNearestRefuelingStation(stations, pos).route
             IN  IF Len(r) >= 2 THEN AssignNewTripV(v, r, 60)
                 ELSE RefuelV(v) :
             pos \in positions }

\* SimulationEngine._assign_refueling_trip: the vehicles it can leave.
AssignRefuelingTrip(v, stations) ==
  LET positions == IF v.route # << >> THEN { v.route[Len(v.route)] }
                   ELSE Nodes
  IN  IF stations = << >> THEN { v }
      ELSE { LET r == FindNearestRefuelingStation(stations, pos).route
             IN  IF Len(r) >= 2 THEN AssignNewTripV(v, r, 60) ELSE v :
             pos \in positions }

max_attempts == 20

\* The loop of _assign_random_trip after made attempts, drawn being what
\* get_random_route can return for the vehicle and taken the routes among
\* them that are within range: the ways the loop can end, each the route
\* assigned (NoRoute when the loop gives up) and the number of calls of
\* get_random_route made.  An attempt that draws a route within range
\* assigns it and returns; the loop goes on to the next attempt otherwise
\* and ends after max_attempts.
RECURSIVE RandomTripAttempts(_, _, _)
RandomTripAttempts(drawn, taken, made) ==
  IF made = max_attempts THEN { [route |-> NoRoute, attempts |-> made] }
  ELSE { [route |-> r, attempts |-> made + 1] : r \in taken }
       \cup (IF taken # drawn
             THEN RandomTripAttempts(drawn, taken, made + 1)
             ELSE {})

\* SimulationEngine._assign_random_trip: the ways it can end.
RandomTripOutcomes(v) ==
  LET drawn == GetRandomRoute(MinDistance(v))
      taken == { r \in drawn : r # NoRoute /\ WithinFuelRange(v, r) }
  IN  RandomTripAttempts(drawn, taken, 0)

\* The vehicle _assign_random_trip leaves when it ends as m.
AfterRandomTrip(v, m) ==
  IF m.route = NoRoute THEN v ELSE AssignNewTripV(v, m.route, 60)

\* SimulationEngine._assign_random_trip: the vehicles it can leave.
AssignRandomTrip(v) ==
  { AfterRandomTrip(v, m) : m \in RandomTripOutcomes(v) }

\* Mutant: a failed refuel routing falls through to the random trip.
ManageVehicleLifecycle_FallsThrough(v, stations) ==
  IF v.state # "PARKED" THEN { v }
  ELSE IF NeedsRefueling(v)
       THEN LET routed == AssignRefuelingTrip(v, stations) \ { v }
            IN  routed \cup (IF routed # AssignRefuelingTrip(v, stations)
                             THEN AssignRandomTrip(v) ELSE {})
  ELSE AssignRandomTrip(v)

\* SimulationEngine._manage_vehicle_lifecycle: the vehicles it can leave.
ManageVehicleLifecycle(v, stations) ==
  IF v.state # "PARKED" THEN { v }
  ELSE IF NeedsRefueling(v) THEN AssignRefuelingTrip(v, stations)
  ELSE AssignRandomTrip(v)

\* The profiles dictionary handed to create_vehicle_fleet, in key order.
FleetProfiles ==
  << [name |-> "opportunist", profile |-> Opportunist],
     [name |-> "thief", profile |-> FuelThief] >>

\* str.upper on the profile names.
Upper(name) ==
  CASE name = "opportunist" -> "OPPORTUNIST"
    [] name = "thief" -> "THIEF"

\* f"{n:03d}" for 0 <= n < 1000.
Digit(n) == << "0", "1", "2", "3", "4", "5", "6", "7", "8", "9" >>[n + 1]
ThreeDigits(n) ==
  Digit(n \div 100) \o Digit((n \div 10) % 10) \o Digit(n % 10)

\* f"V-{profile_name.upper()}-{i+1:03d}" for the 0-based index i.
VehicleId(profile_name, i) ==
  "V-" \o Upper(profile_name) \o "-" \o ThreeDigits(i + 1)

\* Mutant: the profiles are dealt in blocks of consecutive vehicles.
Fleet_InBlocks(num_vehicles, profiles) ==
  [k \in 1 .. num_vehicles |->
     LET i == k - 1
         p == profiles[((i * Len(profiles)) \div num_vehicles) + 1]
     IN  NewVehicle(VehicleId(p.name, i), p.profile,
                    DEFAULT_TANK_CAPACITY_LITERS)]

\* The fleet create_vehicle_fleet builds: profiles taken round robin.
Fleet(num_vehicles, profiles) ==
  [k \in 1 .. num_vehicles |->
     LET i == k - 1
         p == profiles[(i % Len(profiles)) + 1]
     IN  NewVehicle(VehicleId(p.name, i), p.profile,
                    DEFAULT_TANK_CAPACITY_LITERS)]

\* Fleet sizes create_vehicle_fleet is asked for.
FleetSizes == {0, 1, 2}
\* Arguments of run_simulation; 60 is its default time step, 90 does not
\* divide every duration.
Durations == 0 .. MaxDurationMinutes
TimeSteps == {0, 60, 90}
TimeScaleFactors == {0, 60}
BatchSizes == {1, 3}

\* What stream_telemetry_batch can report for a batch it posts: the status
\* of the server's reply ("no_data" also comes with HTTP 200) or the status
\* it builds itself from a timeout, an HTTP error or another exception.
ReplyStatuses == {"success", "no_data"}
ErrorStatuses == {"timeout_error", "http_error", "error"}

\* DataStreamHandler.stream_telemetry_batch: the reported status and the
\* counters after the call.  An empty batch is not posted.
StreamTelemetryBatch(readings, st, status) ==
  IF readings = << >> THEN [status |-> "success", stats |-> st]
  ELSE IF status \in ReplyStatuses
  THEN [status |-> status,
        stats |-> [st EXCEPT
          !.total_batches_sent = @ + 1,
          !.total_readings_sent = @ + Len(readings),
          !.successful_requests = @ + 1]]
  ELSE [status |-> status,
        stats |-> [st EXCEPT
          !.failed_requests = @ + 1,
          !.total_errors = @ + 1]]

\* The statuses a call can report.
BatchStatuses(readings) ==
  IF readings = << >> THEN {"success"}
  ELSE ReplyStatuses \cup ErrorStatuses

\* The batch recorded as the latest one posted.
Posted(readings, status) ==
  IF readings = << >> THEN last_send
  ELSE [readings |-> readings, status |-> status]

\* The readings handed to stream_telemetry_batch once it is called with
\* the given ones.
HandedToSink(readings) ==
  sink \cup { readings[i] : i \in 1 .. Len(readings) }

\* Mutant: the buffer is cleared whatever the send reports.
BufferAfterSend_AlwaysClears(buffer, status) ==
  << >>

\* run_simulation: "if result.get("status") == "success": clear()".
BufferAfterSend(buffer, status) ==
  IF status = "success" THEN << >> ELSE buffer

\* The draws of a tick of the run: those of TickDraws, timers and theft
\* percentages taken at one end of their range.
EngineDraws(v, delta) ==
  { d \in TickDraws(v, delta) :
      /\ d.timer \in {NotDrawn, 125}
      /\ d.theft_pct \in {NotDrawn, v.behavioral_profile.theft_pct_max} }

\* The engine and its world before any call.
RunInit ==
  /\ veh = NewVehicle("V-1", Opportunist, DEFAULT_TANK_CAPACITY_LITERS)
  /\ pre = veh
  /\ time_step_seconds = 0
  /\ telemetry = NoReading
  /\ anomaly = NoAnomaly
  /\ theft = NoTheft
  /\ op = "init"
  /\ inp = NoInput
  /\ ticks = 0
  /\ trip = NoTrip
  /\ refueling_stations \in StationPlacements
  /\ NewEngine

\* create_vehicle_fleet(num_vehicles, profiles): raises for a fleet of no
\* vehicles (the engine is left as it was), else replaces the fleet.
CreateVehicleFleet ==
  /\ pc = "engine"
  /\ \E n \in FleetSizes :
       vehicles' = IF n <= 0 THEN vehicles ELSE Fleet(n, FleetProfiles)
  /\ UNCHANGED << harness_vars, ingest_vars, replay_vars, anomaly_sink, time_step_seconds, refueling_stations,
                  telemetry_log, anomaly_log, telemetry_buffer, pc, tick,
                  vidx, current_sim_time, total_simulation_ticks,
                  batch_size, stats, last_send, faults, duration_minutes,
                  sink >>

\* Mutant: the number of ticks is rounded up.
TotalSimulationTicks_RoundedUp(duration, step) ==
  (duration * 60 + step - 1) \div step

\* total_simulation_ticks = (duration_minutes * 60) // time_step_seconds
TotalSimulationTicks(duration, step) ==
  (duration * 60) \div step

\* run_simulation up to the tick loop: validation, connection test,
\* clearing of the logs, the locals.
StartRun ==
  /\ pc = "engine"
  /\ \E duration \in Durations, step \in TimeSteps,
        scale \in TimeScaleFactors, size \in BatchSizes,
        connected \in BOOLEAN :
       IF duration <= 0 \/ step <= 0 \/ scale <= 0 \/ vehicles = << >>
          \/ ~connected
       THEN /\ pc' = "raised"
            /\ UNCHANGED << time_step_seconds, telemetry_log, anomaly_log,
                            telemetry_buffer, tick, vidx, current_sim_time,
                            total_simulation_ticks, batch_size,
                            duration_minutes >>
       ELSE /\ telemetry_log' = << >>
            /\ anomaly_log' = << >>
            /\ duration_minutes' = duration
            /\ time_step_seconds' = step
            /\ batch_size' = size
            /\ total_simulation_ticks' = TotalSimulationTicks(duration, step)
            /\ current_sim_time' = 0
            /\ telemetry_buffer' = << >>
            /\ tick' = 0
            /\ vidx' = 1
            /\ pc' = IF TotalSimulationTicks(duration, step) > 0
                     THEN "vehicles"
                     ELSE "final"
  /\ UNCHANGED << harness_vars, ingest_vars, replay_vars, anomaly_sink, vehicles, refueling_stations, stats,
                  last_send, faults, sink >>

\* Mutant: the vehicles of the fleet share one route list, so that a trip
\* assigned to one vehicle is the trip of all.
FleetAfterPass_SharedRoute(fleet, k, v) ==
  [j \in 1 .. Len(fleet) |->
     IF j = k THEN v ELSE [fleet[j] EXCEPT !.route = v.route]]

\* "for vehicle in self.vehicles": life-cycle management and tick() work
\* on the one vehicle object of the pass; the list and its other vehicles
\* stay as they are.
FleetAfterPass(fleet, k, v) == [fleet EXCEPT ![k] = v]

\* Mutant: the vehicle is ticked first and managed afterwards.
VehiclePass_TickFirst(v, stations, timestamp, delta) ==
  UNION { { [r EXCEPT !.v = lv] :
              lv \in ManageVehicleLifecycle(r.v, stations) } :
          r \in { TickV(v, timestamp, delta, d) :
                    d \in EngineDraws(v, delta) } }

\* The body of "for vehicle in self.vehicles" for one vehicle: life-cycle
\* management, then the vehicle's tick; what tick can return.
VehiclePass(v, stations, timestamp, delta) ==
  UNION { { TickV(lv, timestamp, delta, d) : d \in EngineDraws(lv, delta) } :
          lv \in ManageVehicleLifecycle(v, stations) }

\* Mutant: an event is handed over a second time.
StreamAnomalyEvent_Retried(given, anomaly_event) ==
  Append(Append(given, anomaly_event), anomaly_event)

\* DataStreamHandler.stream_anomaly_event: the event is logged; the call
\* returns True, or False when the logging raised, and never raises.  The
\* events the handler has been given, after this one.
StreamAnomalyEvent(given, anomaly_event) == Append(given, anomaly_event)

\* Mutant: the buffer is checked and sent inside the vehicle loop.
ProcessVehicle_FlushesInLoop ==
  /\ pc = "vehicles"
  /\ \E r \in VehiclePass(vehicles[vidx], refueling_stations,
                          current_sim_time, time_step_seconds) :
       /\ vehicles' = FleetAfterPass(vehicles, vidx, r.v)
       /\ telemetry_log' = Append(telemetry_log, r.telemetry)
       /\ anomaly_log' = IF r.anomaly # NoAnomaly
                         THEN Append(anomaly_log, r.anomaly)
                         ELSE anomaly_log
       /\ anomaly_sink' = IF r.anomaly # NoAnomaly
                          THEN StreamAnomalyEvent(anomaly_sink, r.anomaly)
                          ELSE anomaly_sink
       /\ LET buffer == Append(telemetry_buffer, r.telemetry)
          IN  IF Len(buffer) >= batch_size
              THEN \E status \in BatchStatuses(buffer) :
                     \E result \in {StreamTelemetryBatch(buffer, stats,
                                                         status)} :
                       /\ telemetry_buffer' =
                            BufferAfterSend(buffer, result.status)
                       /\ stats' = result.stats
                       /\ last_send' = Posted(buffer, result.status)
                       /\ sink' = HandedToSink(buffer)
              ELSE /\ telemetry_buffer' = buffer
                   /\ UNCHANGED << stats, last_send, sink >>
  /\ IF vidx < Len(vehicles)
     THEN vidx' = vidx + 1 /\ pc' = "vehicles"
     ELSE vidx' = vidx /\ pc' = "flush"
  /\ UNCHANGED << harness_vars, ingest_vars, replay_vars, time_step_seconds, refueling_stations, tick,
                  current_sim_time, total_simulation_ticks, batch_size,
                  faults, duration_minutes >>

\* One pass of "for vehicle in self.vehicles": life-cycle management, the
\* vehicle's tick, the reading appended to the buffer and to the log, the
\* anomaly appended to its log and handed to stream_anomaly_event (which
\* only logs it).
ProcessVehicle ==
  /\ pc = "vehicles"
  /\ \E r \in VehiclePass(vehicles[vidx], refueling_stations,
                          current_sim_time, time_step_seconds) :
       /\ vehicles' = FleetAfterPass(vehicles, vidx, r.v)
       /\ telemetry_buffer' = Append(telemetry_buffer, r.telemetry)
       /\ telemetry_log' = Append(telemetry_log, r.telemetry)
       /\ anomaly_log' = IF r.anomaly # NoAnomaly
                         THEN Append(anomaly_log, r.anomaly)
                         ELSE anomaly_log
       /\ anomaly_sink' = IF r.anomaly # NoAnomaly
                          THEN StreamAnomalyEvent(anomaly_sink, r.anomaly)
                          ELSE anomaly_sink
  /\ IF vidx < Len(vehicles)
     THEN vidx' = vidx + 1 /\ pc' = "vehicles"
     ELSE vidx' = vidx /\ pc' = "flush"
  /\ UNCHANGED << harness_vars, ingest_vars, replay_vars, time_step_seconds, refueling_stations, tick,
                  current_sim_time, total_simulation_ticks, batch_size,
                  stats, last_send, faults, duration_minutes, sink >>

\* Mutant: the buffer is kept after a send that reports success.
FlushCheck_KeepsBuffer ==
  /\ pc = "flush"
  /\ IF Len(telemetry_buffer) >= batch_size
     THEN \E status \in BatchStatuses(telemetry_buffer) :
            \E result \in {StreamTelemetryBatch(telemetry_buffer, stats,
                                                status)} :
              /\ telemetry_buffer' = telemetry_buffer
              /\ stats' = result.stats
              /\ last_send' = Posted(telemetry_buffer, result.status)
              /\ sink' = HandedToSink(telemetry_buffer)
     ELSE UNCHANGED << telemetry_buffer, stats, last_send, sink >>
  /\ current_sim_time' = current_sim_time + time_step_seconds
  /\ tick' = tick + 1
  /\ IF tick + 1 < total_simulation_ticks
     THEN vidx' = 1 /\ pc' = "vehicles"
     ELSE vidx' = vidx /\ pc' = "final"
  /\ UNCHANGED << harness_vars, ingest_vars, replay_vars, anomaly_sink, time_step_seconds, vehicles,
                  refueling_stations, telemetry_log, anomaly_log,
                  total_simulation_ticks, batch_size, faults,
                  duration_minutes >>

\* The rest of the tick: the batch is sent when the buffer has reached
\* batch_size and cleared when the send reports success; simulated time
\* advances and the loop goes to its next tick or ends.
FlushCheck ==
  /\ pc = "flush"
  /\ IF Len(telemetry_buffer) >= batch_size
     THEN \E status \in BatchStatuses(telemetry_buffer) :
            \E result \in {StreamTelemetryBatch(telemetry_buffer, stats,
                                                status)} :
              /\ telemetry_buffer' =
                   BufferAfterSend(telemetry_buffer, result.status)
              /\ stats' = result.stats
              /\ last_send' = Posted(telemetry_buffer, result.status)
              /\ sink' = HandedToSink(telemetry_buffer)
     ELSE UNCHANGED << telemetry_buffer, stats, last_send, sink >>
  /\ current_sim_time' = current_sim_time + time_step_seconds
  /\ tick' = tick + 1
  /\ IF tick + 1 < total_simulation_ticks
     THEN vidx' = 1 /\ pc' = "vehicles"
     ELSE vidx' = vidx /\ pc' = "final"
  /\ UNCHANGED << harness_vars, ingest_vars, replay_vars, anomaly_sink, time_step_seconds, vehicles,
                  refueling_stations, telemetry_log, anomaly_log,
                  total_simulation_ticks, batch_size, faults,
                  duration_minutes >>

\* Mutant: the run returns without the final flush.
FinalFlush_Skipped ==
  /\ pc = "final"
  /\ pc' = "done"
  /\ UNCHANGED << harness_vars, ingest_vars, replay_vars, anomaly_sink, time_step_seconds, vehicles,
                  refueling_stations, telemetry_log, anomaly_log,
                  telemetry_buffer, tick, vidx, current_sim_time,
                  total_simulation_ticks, batch_size, faults,
                  duration_minutes, stats, last_send, sink >>

\* After the loop: what is left in the buffer is sent once, the result is
\* not looked at, and the run returns.
FinalFlush ==
  /\ pc = "final"
  /\ IF telemetry_buffer # << >>
     THEN \E status \in BatchStatuses(telemetry_buffer) :
            \E result \in {StreamTelemetryBatch(telemetry_buffer, stats,
                                                status)} :
              /\ stats' = result.stats
              /\ last_send' = Posted(telemetry_buffer, result.status)
              /\ sink' = HandedToSink(telemetry_buffer)
     ELSE UNCHANGED << stats, last_send, sink >>
  /\ pc' = "done"
  /\ UNCHANGED << harness_vars, ingest_vars, replay_vars, anomaly_sink, time_step_seconds, vehicles,
                  refueling_stations, telemetry_log, anomaly_log,
                  telemetry_buffer, tick, vidx, current_sim_time,
                  total_simulation_ticks, batch_size, faults,
                  duration_minutes >>

RunNext ==
  CreateVehicleFleet \/ StartRun \/ ProcessVehicle \/ FlushCheck
    \/ FinalFlush

RunSpec == RunInit /\ [][RunNext]_vars

\* ------------------------------------------ one vehicle under management
\* The single-vehicle harness in a world with stations, with the engine's
\* life-cycle management among the operations of the caller: pre is the
\* vehicle handed to _manage_vehicle_lifecycle, veh the vehicle it leaves.
WorldStations == { << >>, << <<2, 0>> >>, << <<4, 0>>, <<0, 0>> >> }

LifecycleInit ==
  /\ \E p \in Profiles, cap \in TankCapacities :
       veh = NewVehicle("V-1", p, cap)
  /\ pre = veh
  /\ time_step_seconds \in Deltas
  /\ telemetry = NoReading
  /\ anomaly = NoAnomaly
  /\ theft = NoTheft
  /\ op = "init"
  /\ inp = NoInput
  /\ ticks = 0
  /\ trip = NoTrip
  /\ refueling_stations \in WorldStations
  /\ NewEngine

ManageLifecycle ==
  /\ veh' \in ManageVehicleLifecycle(veh, refueling_stations)
  /\ pre' = veh
  /\ op' = "manage_vehicle_lifecycle"
  /\ telemetry' = NoReading
  /\ anomaly' = NoAnomaly
  /\ theft' = NoTheft
  /\ inp' = NoInput
  /\ UNCHANGED << ticks, time_step_seconds, trip, engine_vars >>

\* Routes of the world a caller hands to assign_new_trip.
WorldRoutes ==
  { r \in GoodRoutes \cup ShortRoutes : \A i \in 1 .. Len(r) : r[i] \in Nodes }

\* A caller assigns a trip in the world (in any state of the vehicle).
AssignWorldTrip ==
  /\ \E r \in WorldRoutes, s \in Speeds :
       veh' = AssignNewTripV(veh, r, s)
  /\ pre' = veh'
  /\ op' = "assign_new_trip"
  /\ telemetry' = NoReading
  /\ anomaly' = NoAnomaly
  /\ theft' = NoTheft
  /\ inp' = NoInput
  /\ UNCHANGED << ticks, time_step_seconds, trip, engine_vars >>

LifecycleTick ==
  /\ ticks < MaxLifecycleTicks
  /\ ticks' = ticks + 1
  /\ TickStep
  /\ UNCHANGED trip

LifecycleNext ==
  ManageLifecycle \/ AssignWorldTrip \/ Refuel \/ LifecycleTick

LifecycleSpec == LifecycleInit /\ [][LifecycleNext]_vars

\* ------------------------------------------------- a second run_simulation
\* run_simulation is called again on the engine after a run has returned.
\* The validation of run_simulation and the connection test.
RunRefused(duration, step, scale, fleet, connected) ==
  duration <= 0 \/ step <= 0 \/ scale <= 0 \/ fleet = << >> \/ ~connected

\* Mutant: the logs are cleared before the validation and the connection
\* test.
StartRunAgain_ClearsFirst ==
  /\ pc = "done"
  /\ total_simulation_ticks <= MaxFirstRunTicks
  /\ telemetry_log' = << >>
  /\ anomaly_log' = << >>
  /\ \E duration \in Durations, step \in TimeSteps,
        scale \in TimeScaleFactors, size \in BatchSizes,
        connected \in BOOLEAN :
       IF RunRefused(duration, step, scale, vehicles, connected)
       THEN /\ pc' = "raised"
            /\ UNCHANGED << time_step_seconds, telemetry_buffer, tick, vidx,
                            current_sim_time, total_simulation_ticks,
                            batch_size, duration_minutes, stats >>
       ELSE /\ duration_minutes' = duration
            /\ time_step_seconds' = step
            /\ batch_size' = size
            /\ total_simulation_ticks' = TotalSimulationTicks(duration, step)
            /\ current_sim_time' = 0
            /\ telemetry_buffer' = << >>
            /\ tick' = 0
            /\ vidx' = 1
            /\ stats' = NoStats
            /\ pc' = "rerun"
  /\ UNCHANGED << harness_vars, ingest_vars, replay_vars, anomaly_sink, vehicles,
                  refueling_stations, last_send, faults, sink >>

\* run_simulation called after a run has returned, up to its tick loop:
\* validation, the connection test of a new DataStreamHandler, clearing of
\* the logs, the locals.  The second run is followed to the start of its
\* tick loop ("rerun").
StartRunAgain ==
  /\ pc = "done"
  /\ total_simulation_ticks <= MaxFirstRunTicks
  /\ \E duration \in Durations, step \in TimeSteps,
        scale \in TimeScaleFactors, size \in BatchSizes,
        connected \in BOOLEAN :
       IF RunRefused(duration, step, scale, vehicles, connected)
       THEN /\ pc' = "raised"
            /\ UNCHANGED << time_step_seconds, telemetry_log, anomaly_log,
                            telemetry_buffer, tick, vidx, current_sim_time,
                            total_simulation_ticks, batch_size,
                            duration_minutes, stats >>
       ELSE /\ telemetry_log' = << >>
            /\ anomaly_log' = << >>
            /\ duration_minutes' = duration
            /\ time_step_seconds' = step
            /\ batch_size' = size
            /\ total_simulation_ticks' = TotalSimulationTicks(duration, step)
            /\ current_sim_time' = 0
            /\ telemetry_buffer' = << >>
            /\ tick' = 0
            /\ vidx' = 1
            /\ stats' = NoStats
            /\ pc' = "rerun"
  /\ UNCHANGED << harness_vars, ingest_vars, replay_vars, anomaly_sink, vehicles,
                  refueling_stations, last_send, faults, sink >>

RerunNext == RunNext \/ StartRunAgain

RerunSpec == RunInit /\ [][RerunNext]_vars

\* ------------------------------------------------- a caller's calls, kept
\* The single-vehicle harness with a caller that also calls tick with a
\* delta that is not positive; pre is the vehicle as it was before the
\* call, whatever the call, and trip holds the arguments of the last
\* assign_new_trip.
InvalidDeltas == {0, -30}

\* Mutant: the delta is validated after the physics and the fuel update.
TickRejected_AfterPhysics(v, delta) == TickPhysics(v, delta).v

\* VehicleAgent.tick for delta <= 0: ValueError is raised before any
\* field is touched; the vehicle the call leaves.
TickRejected(v, delta) == v

\* A caller ticks the vehicle with a delta that is not positive: the call
\* raises, nothing is returned.
TickInvalid ==
  /\ \E delta \in InvalidDeltas :
       /\ veh' = TickRejected(veh, delta)
       /\ inp' = [NoInput EXCEPT !.delta = delta]
  /\ pre' = veh
  /\ op' = "tick_raised"
  /\ telemetry' = NoReading
  /\ anomaly' = NoAnomaly
  /\ theft' = NoTheft
  /\ UNCHANGED << ticks, time_step_seconds, trip, engine_vars >>

\* A caller assigns a trip (in any state of the vehicle).
CallAssignNewTrip ==
  /\ \E r \in GoodRoutes \cup ShortRoutes, s \in Speeds :
       /\ veh' = AssignNewTripV(veh, r, s)
       /\ trip' = [speed |-> s, stops |-> 0, route |-> r]
  /\ pre' = veh
  /\ op' = "assign_new_trip"
  /\ telemetry' = NoReading
  /\ anomaly' = NoAnomaly
  /\ theft' = NoTheft
  /\ inp' = NoInput
  /\ UNCHANGED << ticks, time_step_seconds, engine_vars >>

\* A caller refuels the vehicle (in any state of the vehicle).
CallRefuel ==
  /\ veh' = RefuelV(veh)
  /\ pre' = veh
  /\ op' = "refuel"
  /\ telemetry' = NoReading
  /\ anomaly' = NoAnomaly
  /\ theft' = NoTheft
  /\ inp' = NoInput
  /\ UNCHANGED << ticks, time_step_seconds, trip, engine_vars >>

CallerNext ==
  CallAssignNewTrip \/ CallRefuel \/ LifecycleTick \/ TickInvalid

CallerSpec == Init /\ [][CallerNext]_vars

\* ---------------------------------------------- the ingestion service
\* POST /ingest of api/ingestion.py and the background tasks it schedules.
\* The handler is a coroutine that does not await between its duplicate
\* check and add_task, so one request is one step; FastAPI runs the task
\* after the response has been sent, in the thread pool, and the handlers
\* of other requests can run before it.  Readings are followed by the two
\* fields of their key; a stored reading is the reading (its _metadata is
\* left out).
IngestReadings ==
  { [vehicle_id |-> "V-1", timestamp |-> 0],
    [vehicle_id |-> "V-2", timestamp |-> 0],
    [vehicle_id |-> "V-1", timestamp |-> 60] }

\* The readings of a request: one or two, the same one twice included.
IngestBatches ==
  { << r >> : r \in IngestReadings }
    \cup { << p[1], p[2] >> : p \in IngestReadings \X IngestReadings }

\* f"{reading['vehicle_id']}_{reading['timestamp']}"
ReadingKey(reading) == << reading.vehicle_id, reading.timestamp >>

\* The loop of check_duplicates over readings[i ..]: the readings whose
\* key is not among existing_keys, each key being added when first met,
\* and the number of the others.
RECURSIVE CheckDuplicatesFrom(_, _, _)
CheckDuplicatesFrom(existing_keys, readings, i) ==
  IF i > Len(readings) THEN [unique_readings |-> << >>, duplicates |-> 0]
  ELSE LET key == ReadingKey(readings[i])
       IN  IF key \notin existing_keys
           THEN LET rest == CheckDuplicatesFrom(existing_keys \cup {key},
                                                readings, i + 1)
                IN  [rest EXCEPT !.unique_readings =
                                   << readings[i] >> \o @]
           ELSE LET rest == CheckDuplicatesFrom(existing_keys, readings,
                                                i + 1)
                IN  [rest EXCEPT !.duplicates = @ + 1]

\* check_duplicates: existing_keys are the keys of telemetry_store.
CheckDuplicates(store, readings) ==
  CheckDuplicatesFrom({ ReadingKey(store[i]) : i \in 1 .. Len(store) },
                      readings, 1)

RECURSIVE ScheduledReadings(_, _)
ScheduledReadings(tasks, t) ==
  IF t > Len(tasks) THEN 0 ELSE Len(tasks[t]) + ScheduledReadings(tasks, t + 1)

\* ingest_telemetry_universal for a payload with readings: the duplicate
\* check, and process_telemetry_async scheduled with the unique readings
\* unless there is none.
IngestTelemetry ==
  /\ Len(background_tasks) < MaxPendingTasks
  /\ \E readings \in IngestBatches :
       LET checked == CheckDuplicates(telemetry_store, readings)
       IN  /\ Len(telemetry_store) + ScheduledReadings(background_tasks, 1)
                + Len(checked.unique_readings) <= MaxStoredReadings
           /\ background_tasks' =
                IF checked.unique_readings = << >>
                THEN background_tasks
                ELSE Append(background_tasks, checked.unique_readings)
  /\ UNCHANGED << harness_vars, time_step_seconds, vehicles,
                  refueling_stations, telemetry_log, anomaly_log,
                  telemetry_buffer, pc, tick, vidx, current_sim_time,
                  total_simulation_ticks, batch_size, stats, last_send,
                  faults, duration_minutes, sink, replay_vars,
                  anomaly_sink, telemetry_store >>

\* process_telemetry_async of one scheduled task: its readings are
\* appended to telemetry_store.
ProcessTelemetryAsync ==
  /\ \E t \in 1 .. Len(background_tasks) :
       /\ telemetry_store' = telemetry_store \o background_tasks[t]
       /\ background_tasks' =
            SubSeq(background_tasks, 1, t - 1)
              \o SubSeq(background_tasks, t + 1, Len(background_tasks))
  /\ UNCHANGED << harness_vars, time_step_seconds, vehicles,
                  refueling_stations, telemetry_log, anomaly_log,
                  telemetry_buffer, pc, tick, vidx, current_sim_time,
                  total_simulation_ticks, batch_size, stats, last_send,
                  faults, duration_minutes, sink, replay_vars,
                  anomaly_sink >>

IngestNext == IngestTelemetry \/ ProcessTelemetryAsync

IngestSpec == RunInit /\ [][IngestNext]_vars

\* ----------------------------------------- one vehicle through the run
\* The body of the vehicle loop, life-cycle management and then tick(),
\* applied tick after tick to one vehicle of a run, from the vehicle
\* create_vehicle_fleet makes: pre is the vehicle before the pass.
EnginePass ==
  /\ ticks < MaxPasses
  /\ ticks' = ticks + 1
  /\ \E r \in VehiclePass(veh, refueling_stations, 0, time_step_seconds) :
       /\ veh' = r.v
       /\ telemetry' = r.telemetry
       /\ anomaly' = r.anomaly
       /\ theft' = r.theft
  /\ pre' = veh
  /\ op' = "pass"
  /\ inp' = NoInput
  /\ UNCHANGED << time_step_seconds, trip, engine_vars >>

PassSpec == LifecycleInit /\ [][EnginePass]_vars

\* ------------------------------------------------------ a run, stopped
\* run_simulation reads no stop flag and takes no stop argument: the tick
\* loop is "for tick in range(total_simulation_ticks)".  The one way to
\* stop a run from outside is the interpreter's KeyboardInterrupt, which
\* is raised wherever the run is; "except Exception" does not catch it,
\* the with statement closes the HTTP client, and the buffer is left
\* unsent.  Interrupts are followed between the steps of the run.
Interrupt ==
  /\ pc \in {"vehicles", "flush", "final"}
  /\ total_simulation_ticks <= MaxInterruptedRunTicks
  /\ pc' = "interrupted"
  /\ UNCHANGED << harness_vars, ingest_vars, replay_vars, anomaly_sink,
                  time_step_seconds, vehicles, refueling_stations,
                  telemetry_log, anomaly_log, telemetry_buffer, tick, vidx,
                  current_sim_time, total_simulation_ticks, batch_size,
                  stats, last_send, faults, duration_minutes, sink >>

InterruptNext == RunNext \/ Interrupt

InterruptSpec == RunInit /\ [][InterruptNext]_vars

\* ------------------------------------------------- GridWorld's queries
\* GridWorld(width, height, n) for grids of several shapes, the one-node
\* grid included, and its two queries called again and again.  inp keeps
\* the shape of the grid and the arguments of the last call, trip what the
\* call returned; the fields of inp the call does not take are reset.
GridWidths == 1 .. MaxGridWidth
GridHeights == {1, 2}
MinDistances == {2, 3, 5}

\* nx.grid_2d_graph(width, height): its nodes, and its edges between
\* nodes one step apart.
GridNodes(width, height) ==
  { <<x, y>> : x \in 0 .. width - 1, y \in 0 .. height - 1 }

Adjacent(a, b) == PathLength(a, b) = 1

\* nx.shortest_path(graph, a, b): one of the shortest paths of the grid,
\* which are the paths that step towards b in x or in y at every node.
RECURSIVE GridShortestPaths(_, _)
GridShortestPaths(a, b) ==
  IF a = b THEN { << a >> }
  ELSE LET sx == IF b[1] > a[1] THEN 1 ELSE 0 - 1
           sy == IF b[2] > a[2] THEN 1 ELSE 0 - 1
           nexts == (IF a[1] # b[1] THEN { <<a[1] + sx, a[2]>> } ELSE {})
                    \cup
                    (IF a[2] # b[2] THEN { <<a[1], a[2] + sy>> } ELSE {})
       IN  UNION { { << a >> \o p : p \in GridShortestPaths(n, b) } :
                   n \in nexts }

\* for _ in range(10) of get_random_route.
RouteTries == 10

\* The loop of get_random_route after made tries: sampled are the paths
\* a try can compute, long those of at least min_distance nodes.
RECURSIVE RandomRouteTries(_, _, _)
RandomRouteTries(sampled, long, made) ==
  IF made = RouteTries
  THEN { [route |-> NoRoute, attempts |-> made, raised |-> FALSE] }
  ELSE { [route |-> r, attempts |-> made + 1, raised |-> FALSE] :
         r \in long }
       \cup (IF long # sampled
             THEN RandomRouteTries(sampled, long, made + 1)
             ELSE {})

\* GridWorld.get_random_route on a grid of any shape: random.sample(nodes,
\* 2) raises ValueError when the grid has fewer than two nodes.
GetRandomRouteOn(width, height, min_distance) ==
  LET nodes   == GridNodes(width, height)
      sampled == UNION { GridShortestPaths(p[1], p[2]) :
                         p \in { q \in nodes \X nodes : q[1] # q[2] } }
      long    == { r \in sampled : Len(r) >= min_distance }
  IN  IF Cardinality(nodes) < 2
      THEN { [route |-> NoRoute, attempts |-> 0, raised |-> TRUE] }
      ELSE RandomRouteTries(sampled, long, 0)

\* Mutant: min() keeps the last of the closest stations.
ClosestStation_LastOfTies(stations, start_node) ==
  LET dist(i) == PathLength(start_node, stations[i])
      best == CHOOSE i \in 1 .. Len(stations) :
                /\ \A j \in 1 .. Len(stations) : dist(i) <= dist(j)
                /\ \A j \in i + 1 .. Len(stations) : dist(j) > dist(i)
  IN  stations[best]

\* min(self.refueling_stations, key=path length): the first station of
\* the list among the closest ones.
ClosestStation(stations, start_node) ==
  LET dist(i) == PathLength(start_node, stations[i])
      best == CHOOSE i \in 1 .. Len(stations) :
                /\ \A j \in 1 .. Len(stations) : dist(i) <= dist(j)
                /\ \A j \in 1 .. i - 1 : dist(j) > dist(i)
  IN  stations[best]

\* Station lists random.sample places on the grid: none, one corner, two
\* opposite corners in either order.
StationLists(width, height) ==
  LET near == <<0, 0>>
      far  == <<width - 1, height - 1>>
  IN  { << >>, << near >> }
      \cup (IF near # far THEN { << near, far >>, << far, near >> } ELSE {})

NoResult == [route |-> NoRoute, station |-> << >>]

WorldInit ==
  /\ veh = NewVehicle("V-1", Opportunist, DEFAULT_TANK_CAPACITY_LITERS)
  /\ pre = veh
  /\ time_step_seconds = 0
  /\ telemetry = NoReading
  /\ anomaly = NoAnomaly
  /\ theft = NoTheft
  /\ op = "init"
  /\ ticks = 0
  /\ trip = NoResult
  /\ \E width \in GridWidths, height \in GridHeights :
       /\ inp = [width |-> width, height |-> height, min_distance |-> 0,
                 attempts |-> 0, start_node |-> <<0, 0>>]
       /\ refueling_stations \in StationLists(width, height)
  /\ NewEngine

\* get_random_route(min_distance)
GetRandomRouteCall ==
  /\ \E m \in MinDistances :
       \E o \in GetRandomRouteOn(inp.width, inp.height, m) :
         /\ op' = IF o.raised THEN "get_random_route_raised"
                   ELSE "get_random_route"
         /\ inp' = [inp EXCEPT !.min_distance = m, !.attempts = o.attempts,
                               !.start_node = <<0, 0>>]
         /\ trip' = [route |-> o.route, station |-> << >>]
  /\ UNCHANGED << veh, pre, telemetry, anomaly, theft, ticks,
                  time_step_seconds, engine_vars >>

\* find_nearest_refueling_station(start_node): ValueError when the world
\* has no station, else the closest station and a shortest path to it.
FindNearestCall ==
  /\ \E start_node \in GridNodes(inp.width, inp.height) :
       /\ inp' = [inp EXCEPT !.start_node = start_node,
                             !.min_distance = 0, !.attempts = 0]
       /\ IF Len(refueling_stations) = 0
          THEN /\ op' = "find_nearest_refueling_station_raised"
               /\ trip' = NoResult
          ELSE LET closest_station ==
                     ClosestStation(refueling_stations, start_node)
               IN  /\ op' = "find_nearest_refueling_station"
                   /\ \E route_to_station \in
                          GridShortestPaths(start_node, closest_station) :
                        trip' = [route |-> route_to_station,
                                 station |-> closest_station]
  /\ UNCHANGED << veh, pre, telemetry, anomaly, theft, ticks,
                  time_step_seconds, engine_vars >>

WorldNext == GetRandomRouteCall \/ FindNearestCall

WorldSpec == WorldInit /\ [][WorldNext]_vars

\* ------------------------------------------------- create_vehicle_fleet
\* create_vehicle_fleet called again and again on one engine, with fleet
\* sizes and profile dictionaries of every kind; op and inp keep the last
\* call and its arguments.
FleetCounts == -1 .. MaxFleetSize

\* Profile dictionaries, as the list of their items in key order.
ProfileDicts ==
  { << >>,
    << FleetProfiles[1] >>,
    << FleetProfiles[2] >>,
    << FleetProfiles[1], FleetProfiles[2] >>,
    << FleetProfiles[2], FleetProfiles[1] >> }

\* create_vehicle_fleet(num_vehicles, profiles): ValueError for a fleet of
\* no vehicles and for an empty dictionary, before the fleet is cleared.
CreateFleetCall ==
  /\ pc = "engine"
  /\ \E n \in FleetCounts, profiles \in ProfileDicts :
       /\ inp' = [num_vehicles |-> n, profiles |-> profiles]
       /\ IF n <= 0 \/ Len(profiles) = 0
          THEN /\ op' = "create_vehicle_fleet_raised"
               /\ UNCHANGED vehicles
          ELSE /\ op' = "create_vehicle_fleet"
               /\ vehicles' = Fleet(n, profiles)
  /\ UNCHANGED << veh, pre, telemetry, anomaly, theft, ticks, trip,
                  replay_vars, anomaly_sink, ingest_vars,
                  time_step_seconds,
                  refueling_stations, telemetry_log, anomaly_log,
                  telemetry_buffer, pc, tick, vidx, current_sim_time,
                  total_simulation_ticks, batch_size, stats, last_send,
                  faults, duration_minutes, sink >>

FleetSpec == RunInit /\ [][CreateFleetCall]_vars

\* ------------------------------------------------------- a run, run twice
\* Two runs of run_simulation on the same fleet, with the same arguments
\* and the same random draws, followed side by side: the engine's
\* variables are the first run, replay is the second.  Each run reads the
\* clock for its sim_start_time; time is counted in seconds from the clock
\* read of the first run, and ClockReads is what the second run can read.
\* The replies of the ingestion service touch neither log, so the sends of
\* the first run only are followed.
ClockReads == {0, 45}

\* current_sim_time as the datetime run_simulation holds: sim_start_time
\* plus the timedeltas added so far.
SimTime(start, elapsed) == start + elapsed

\* run_simulation up to the tick loop, in both runs.
ReplayStart ==
  /\ pc = "engine"
  /\ \E duration \in Durations, step \in TimeSteps,
        scale \in TimeScaleFactors, size \in BatchSizes,
        connected \in BOOLEAN :
       IF duration <= 0 \/ step <= 0 \/ scale <= 0 \/ vehicles = << >>
          \/ ~connected
       THEN /\ pc' = "raised"
            /\ UNCHANGED << time_step_seconds, telemetry_log, anomaly_log,
                            telemetry_buffer, tick, vidx, current_sim_time,
                            total_simulation_ticks, batch_size,
                            duration_minutes, replay_vars >>
       ELSE /\ telemetry_log' = << >>
            /\ anomaly_log' = << >>
            /\ duration_minutes' = duration
            /\ time_step_seconds' = step
            /\ batch_size' = size
            /\ total_simulation_ticks' = TotalSimulationTicks(duration, step)
            /\ current_sim_time' = 0
            /\ telemetry_buffer' = << >>
            /\ tick' = 0
            /\ vidx' = 1
            /\ pc' = IF TotalSimulationTicks(duration, step) > 0
                     THEN "vehicles"
                     ELSE "final"
            /\ sim_start_time' = 0
            /\ \E now \in ClockReads :
                 replay' = [sim_start_time |-> now, vehicles |-> vehicles,
                            telemetry_log |-> << >>, anomaly_log |-> << >>]
  /\ UNCHANGED << harness_vars, ingest_vars, anomaly_sink, vehicles, refueling_stations, stats,
                  last_send, faults, sink >>

\* The draws of life-cycle management that left lv in the first run leave
\* rlv in the second: the same route, if any, is assigned.
SameLifecycleDraws(v, lv, rv, rlv) ==
  IF lv = v THEN rlv = rv
  ELSE rlv = AssignNewTripV(rv, lv.route, lv.speed_kph)

\* What the pass of one vehicle appends to the logs of a run.
LogsAfterPass(telemetry_log_, anomaly_log_, r) ==
  [telemetry_log |-> Append(telemetry_log_, r.telemetry),
   anomaly_log |-> IF r.anomaly # NoAnomaly
                   THEN Append(anomaly_log_, r.anomaly)
                   ELSE anomaly_log_]

\* Mutant: the second run draws for itself.
ReplayPass_OwnDraws ==
  /\ pc = "vehicles"
  /\ \E r \in VehiclePass(vehicles[vidx], refueling_stations,
                          SimTime(sim_start_time, current_sim_time),
                          time_step_seconds),
        rr \in VehiclePass(replay.vehicles[vidx], refueling_stations,
                           SimTime(replay.sim_start_time, current_sim_time),
                           time_step_seconds) :
       /\ vehicles' = FleetAfterPass(vehicles, vidx, r.v)
       /\ telemetry_buffer' = Append(telemetry_buffer, r.telemetry)
       /\ telemetry_log' = LogsAfterPass(telemetry_log, anomaly_log,
                                         r).telemetry_log
       /\ anomaly_log' = LogsAfterPass(telemetry_log, anomaly_log,
                                       r).anomaly_log
       /\ anomaly_sink' = IF r.anomaly # NoAnomaly
                          THEN StreamAnomalyEvent(anomaly_sink, r.anomaly)
                          ELSE anomaly_sink
       /\ replay' =
            [replay EXCEPT
               !.vehicles[vidx] = rr.v,
               !.telemetry_log = LogsAfterPass(replay.telemetry_log,
                                   replay.anomaly_log, rr).telemetry_log,
               !.anomaly_log = LogsAfterPass(replay.telemetry_log,
                                 replay.anomaly_log, rr).anomaly_log]
  /\ IF vidx < Len(vehicles)
     THEN vidx' = vidx + 1 /\ pc' = "vehicles"
     ELSE vidx' = vidx /\ pc' = "flush"
  /\ UNCHANGED << harness_vars, ingest_vars, sim_start_time, time_step_seconds,
                  refueling_stations, tick, current_sim_time,
                  total_simulation_ticks, batch_size, stats, last_send,
                  faults, duration_minutes, sink >>

\* One pass of "for vehicle in self.vehicles" in both runs, the second run
\* with the draws of the first: life-cycle management, the vehicle's tick
\* at the run's own current_sim_time, the appends to the logs.
ReplayPass ==
  /\ pc = "vehicles"
  /\ \E lv \in ManageVehicleLifecycle(vehicles[vidx], refueling_stations),
        rlv \in ManageVehicleLifecycle(replay.vehicles[vidx],
                                       refueling_stations) :
       /\ SameLifecycleDraws(vehicles[vidx], lv, replay.vehicles[vidx], rlv)
       /\ \E d \in EngineDraws(lv, time_step_seconds)
                    \cap EngineDraws(rlv, time_step_seconds) :
            LET r  == TickV(lv, SimTime(sim_start_time, current_sim_time),
                            time_step_seconds, d)
                rr == TickV(rlv,
                            SimTime(replay.sim_start_time, current_sim_time),
                            time_step_seconds, d)
            IN  /\ vehicles' = FleetAfterPass(vehicles, vidx, r.v)
                /\ telemetry_buffer' = Append(telemetry_buffer, r.telemetry)
                /\ telemetry_log' = LogsAfterPass(telemetry_log, anomaly_log,
                                                  r).telemetry_log
                /\ anomaly_log' = LogsAfterPass(telemetry_log, anomaly_log,
                                                r).anomaly_log
                /\ anomaly_sink' =
                     IF r.anomaly # NoAnomaly
                     THEN StreamAnomalyEvent(anomaly_sink, r.anomaly)
                     ELSE anomaly_sink
                /\ replay' =
                     [replay EXCEPT
                        !.vehicles[vidx] = rr.v,
                        !.telemetry_log =
                           LogsAfterPass(replay.telemetry_log,
                                         replay.anomaly_log, rr).telemetry_log,
                        !.anomaly_log =
                           LogsAfterPass(replay.telemetry_log,
                                         replay.anomaly_log, rr).anomaly_log]
  /\ IF vidx < Len(vehicles)
     THEN vidx' = vidx + 1 /\ pc' = "vehicles"
     ELSE vidx' = vidx /\ pc' = "flush"
  /\ UNCHANGED << harness_vars, ingest_vars, sim_start_time, time_step_seconds,
                  refueling_stations, tick, current_sim_time,
                  total_simulation_ticks, batch_size, stats, last_send,
                  faults, duration_minutes, sink >>

ReplayNext ==
  CreateVehicleFleet \/ ReplayStart \/ ReplayPass \/ FlushCheck
    \/ FinalFlush

ReplaySpec == RunInit /\ [][ReplayNext]_vars

\* ------------------------------------------------- runs with failing ticks
\* tick() raises an exception.  Nothing in tick() raises for the vehicles
\* the engine builds and a positive delta, so the exception is a fault of
\* the environment; it can come at any step of tick() and leaves the vehicle
\* as the steps before it made it: untouched, after the idle countdown,
\* after the physics, after the fuel update, or after the arrival handling
\* (the reading is built last).
TickRaises(v, timestamp, delta) ==
  { v,
    UpdateTimedStates(v, delta),
    IF UpdateTimedStates(v, delta).state = "DRIVING"
    THEN ApplyDrivingPhysics(UpdateTimedStates(v, delta), delta).v
    ELSE ApplyStationaryPhysics(UpdateTimedStates(v, delta)),
    TickPhysics(v, delta).v }
  \cup { TickV(v, timestamp, delta, d).v : d \in EngineDraws(v, delta) }

\* Mutant: the exception of tick() is not caught in the vehicle loop and
\* reaches the handler around the tick loop, which logs it and raises.
AfterTickException_Propagates ==
  /\ vidx' = vidx
  /\ pc' = "raised"

\* "except Exception as e: self.logger.error(...)": the loop goes to the
\* next vehicle.
AfterTickException ==
  IF vidx < Len(vehicles)
  THEN vidx' = vidx + 1 /\ pc' = "vehicles"
  ELSE vidx' = vidx /\ pc' = "flush"

\* One pass of the vehicle loop in which tick() raises: life-cycle
\* management has run, nothing is appended, the exception is logged.  The
\* runs followed are those in which tick() raises once.
TickFault ==
  /\ pc = "vehicles"
  /\ faults = {}
  /\ total_simulation_ticks <= MaxFaultRunTicks
  /\ \E lv \in ManageVehicleLifecycle(vehicles[vidx], refueling_stations) :
       \E w \in TickRaises(lv, current_sim_time, time_step_seconds) :
         vehicles' = FleetAfterPass(vehicles, vidx, w)
  /\ faults' = faults \cup { <<tick, vidx>> }
  /\ AfterTickException
  /\ UNCHANGED << harness_vars, ingest_vars, replay_vars, anomaly_sink, time_step_seconds, refueling_stations,
                  telemetry_log, anomaly_log, telemetry_buffer, tick,
                  current_sim_time, total_simulation_ticks, batch_size,
                  stats, last_send, duration_minutes, sink >>

FaultNext == RunNext \/ TickFault

FaultSpec == RunInit /\ [][FaultNext]_vars

\* ----------------------------------------------------------------- claims
CapacityUnits(v) == v.tank_capacity_liters * FuelScale

\* C1: in every state reached by assign_new_trip, tick and refuel calls,
\* ticks with a fuel theft included, 0 <= fuel_liters <= tank capacity.
C1_FuelWithinTank ==
  /\ 0 <= veh.fuel_liters
  /\ veh.fuel_liters <= CapacityUnits(veh)

\* A theft has just emptied a tank that held less than the liters drawn.
C1_Witness ==
  /\ op = "tick"
  /\ anomaly # NoAnomaly
  /\ veh.fuel_liters = 0
  /\ theft.fuel_before > 0

\* C2: with a route of N >= 2 nodes, after every tick current_edge_index is
\* within [0, N-2] and progress_on_edge within [0, 1].
C2_PositionWithinRoute ==
  (op = "tick" /\ Len(veh.route) >= 2) =>
    /\ 0 <= veh.current_edge_index
    /\ veh.current_edge_index <= Len(veh.route) - 2
    /\ 0 <= veh.progress_on_edge
    /\ veh.progress_on_edge <= ProgressScale

\* A tick has brought the vehicle to the end of the last edge of a route of
\* four nodes.
C2_Witness ==
  /\ op = "tick"
  /\ Len(veh.route) = 4
  /\ veh.current_edge_index = 2
  /\ veh.progress_on_edge = ProgressScale
  /\ pre.progress_on_edge < ProgressScale

\* Ticks that suffice for a trip: every edge at the slowest speed, and a
\* longest idle stop at every intermediate node.
CeilDiv(a, b) == (a + b - 1) \div b
SlowestSpeed == CHOOSE s \in Speeds \cup {DEFAULT_SPEED_KPH} :
                  \A t \in Speeds \cup {DEFAULT_SPEED_KPH} : s <= t
TripTickBound(n, delta) ==
  (n - 1) * CeilDiv(ProgressScale, SlowestSpeed * delta)
  + (n - 2) * CeilDiv(IDLE_MAX_SECONDS, delta)

\* C3: a vehicle assigned a route of N >= 2 nodes at a positive speed and
\* then ticked repeatedly with a fixed delta is Parked after finitely many
\* ticks (at most TripTickBound), whatever the stop and theft draws, and a
\* tick of a Parked vehicle leaves it Parked.
C3_EventuallyParked ==
  /\ ticks >= TripTickBound(Len(veh.route), time_step_seconds) =>
       veh.state = "PARKED"
  /\ (op = "tick" /\ pre.state = "PARKED") => veh.state = "PARKED"

\* The vehicle has parked at the end of its route after an idle stop whose
\* timer ran out.
C3_Witness ==
  /\ op = "tick"
  /\ veh.state = "PARKED"
  /\ pre.state = "IDLING"
  /\ veh.current_edge_index = Len(veh.route) - 2

\* A batch was posted by stream_telemetry_batch in this step.
SendAttempts(st) == st.successful_requests + st.failed_requests
BatchPosted == SendAttempts(stats') = SendAttempts(stats) + 1

IsPrefix(s, t) == Len(s) <= Len(t) /\ SubSeq(t, 1, Len(s)) = s

\* C4: in a run the telemetry buffer loses readings only in the step that
\* posts the whole buffer and gets the status "success", and it is then
\* emptied; a step whose post reports any other status leaves the buffer as
\* it was and the run goes on (to the next tick, to the final flush or to
\* its normal return); and the batch posted after a post that did not
\* report success begins with the readings of that post.
C4_BufferClearedOnlyOnSuccess ==
  [][ /\ ~IsPrefix(telemetry_buffer, telemetry_buffer') =>
            /\ BatchPosted
            /\ last_send' = [readings |-> telemetry_buffer,
                             status |-> "success"]
            /\ telemetry_buffer' = << >>
      /\ (BatchPosted /\ last_send'.status # "success") =>
            /\ last_send'.readings = telemetry_buffer
            /\ telemetry_buffer' = telemetry_buffer
            /\ pc' \in {"vehicles", "final", "done"}
      /\ (BatchPosted /\ last_send.status \notin {"NONE", "success"}) =>
            IsPrefix(last_send.readings, last_send'.readings)
    ]_vars

\* With a batch size of 1 a batch is posted in every tick: a post has
\* failed, its readings were kept, the run went on, and the post of a later
\* tick carried them (readings of two ticks) and emptied the buffer.
C4_Witness ==
  /\ pc = "vehicles"
  /\ batch_size = 1
  /\ stats.failed_requests >= 1
  /\ last_send.status = "success"
  /\ telemetry_buffer = << >>
  /\ \E i, j \in 1 .. Len(last_send.readings) :
       last_send.readings[i].timestamp < last_send.readings[j].timestamp

\* C5: a tick never increases fuel_liters, and refuel() is the only
\* operation that raises the fuel level.
C5_OnlyRefuelRaisesFuel ==
  [][ /\ (op' = "tick" => veh'.fuel_liters <= veh.fuel_liters)
      /\ (veh'.fuel_liters > veh.fuel_liters => op' = "refuel") ]_vars

\* A tick of an idling vehicle has lowered the fuel level.
C5_Witness ==
  /\ op = "tick"
  /\ pre.state = "IDLING"
  /\ veh.state = "IDLING"
  /\ veh.fuel_liters < pre.fuel_liters

\* C6: a tick on a Parked vehicle leaves fuel_liters, route,
\* current_edge_index and progress_on_edge unchanged, keeps the state Parked
\* and produces a reading with speed 0 and no anomaly.
C6_ParkedTickFrame ==
  [][ (veh.state = "PARKED" /\ op' = "tick") =>
        /\ veh'.fuel_liters = veh.fuel_liters
        /\ veh'.route = veh.route
        /\ veh'.current_edge_index = veh.current_edge_index
        /\ veh'.progress_on_edge = veh.progress_on_edge
        /\ veh'.state = "PARKED"
        /\ telemetry'.speed_kph = 0
        /\ anomaly' = NoAnomaly ]_vars

\* A vehicle parked at the end of a trip, with less than a full tank, has
\* been ticked.
C6_Witness ==
  /\ op = "tick"
  /\ pre.state = "PARKED"
  /\ Len(pre.route) >= 2
  /\ pre.fuel_liters < CapacityUnits(pre)

\* The stop draw and the theft draw of the last tick succeeded.
StopDrawSucceeded == inp.u_stop < pre.behavioral_profile.p_stop_at_node
TheftDrawSucceeded == inp.u_theft < pre.behavioral_profile.p_theft_given_stop
\* The last tick moved the vehicle past an intermediate node of its route.
ReachedIntermediateNode ==
  /\ veh.route = pre.route
  /\ veh.current_edge_index = pre.current_edge_index + 1

\* C7: tick returns an AnomalyEvent if and only if in that tick the vehicle
\* reached an intermediate node of its route and both the stop draw and the
\* theft draw succeeded; so none while it stays Idling or Parked or when it
\* arrives at the final node, and at most one per stop.
C7_AnomalyIffTheftAtStop ==
  op = "tick" =>
    /\ (anomaly # NoAnomaly) <=>
         (ReachedIntermediateNode /\ StopDrawSucceeded /\ TheftDrawSucceeded)
    /\ (veh.state = "PARKED" => anomaly = NoAnomaly)
    /\ (~ReachedIntermediateNode => anomaly = NoAnomaly)

\* A tick has returned an anomaly.
C7_Witness ==
  /\ op = "tick"
  /\ anomaly # NoAnomaly
  /\ ReachedIntermediateNode

\* pct (1/1000 percent) of the tank capacity, in fuel units.
PctOfCapacity(pct) == pct * pre.tank_capacity_liters * (FuelScale \div (100 * 1000))
TheftWithinProfile ==
  /\ theft.liters >= PctOfCapacity(pre.behavioral_profile.theft_pct_min)
  /\ theft.liters <= PctOfCapacity(pre.behavioral_profile.theft_pct_max)

\* C8 as stated: for every theft, fuel after = fuel before - liters stolen,
\* the liters stolen being those the AnomalyEvent reports, within the
\* profile's percentage range of the tank capacity.
C8_Original ==
  (op = "tick" /\ anomaly # NoAnomaly) =>
    /\ veh.fuel_liters = theft.fuel_before - theft.liters
    /\ anomaly.liters_stolen = RoundHalfEven(theft.liters, FuelScale \div 100)
    /\ TheftWithinProfile

\* C8 amended: for every theft, fuel after = max(0, fuel before - liters
\* stolen), where the liters stolen are theft_pct percent of the tank
\* capacity, lie within the profile's range, and are reported in the
\* AnomalyEvent rounded to two decimals.
C8_TheftFlooredAtZero ==
  (op = "tick" /\ anomaly # NoAnomaly) =>
    /\ theft.liters = PctOfCapacity(inp.theft_pct)
    /\ veh.fuel_liters = Max(0, theft.fuel_before - theft.liters)
    /\ anomaly.liters_stolen = RoundHalfEven(theft.liters, FuelScale \div 100)
    /\ TheftWithinProfile

\* A theft has drawn more liters than the tank held.
C8_Witness ==
  /\ op = "tick"
  /\ anomaly # NoAnomaly
  /\ theft.fuel_before > 0
  /\ theft.fuel_before < theft.liters
  /\ veh.fuel_liters = 0

\* The idle timer of the vehicle ran out in the last tick.
TimerExpired ==
  /\ op = "tick"
  /\ pre.state = "IDLING"
  /\ pre.state_timer_seconds <= inp.delta

\* C9: the idle timer is never negative and no tick ends with the vehicle
\* Idling on a timer of 0: the tick in which the timer reaches 0 resumes
\* driving, so that the vehicle ends it Driving at the default speed, or
\* has already arrived at the next node (Parked there, or in a new stop).
C9_IdleTimer ==
  /\ veh.state_timer_seconds >= 0
  /\ (veh.state = "IDLING" => veh.state_timer_seconds > 0)
  /\ TimerExpired =>
       \/ /\ veh.state = "DRIVING"
          /\ veh.speed_kph = DEFAULT_SPEED_KPH
          /\ veh.state_timer_seconds = 0
       \/ /\ veh.state = "PARKED"
          /\ veh.progress_on_edge = ProgressScale
       \/ /\ veh.state = "IDLING"
          /\ ReachedIntermediateNode
          /\ veh.state_timer_seconds = inp.timer

\* The timer of an idle stop has run out, from a value below the tick size.
C9_Witness ==
  /\ TimerExpired
  /\ pre.state_timer_seconds < inp.delta
  /\ veh.state_timer_seconds = 0

\* The last tick put the vehicle into a new idle stop.
NewlyIdling ==
  /\ op = "tick"
  /\ veh.state = "IDLING"
  /\ (pre.state = "DRIVING" \/ TimerExpired)

\* C10: on arrival at an intermediate node the edge index is incremented
\* and the progress reset before the stop is decided: every tick that ends
\* with the vehicle newly Idling has current_edge_index one higher than at
\* its start, progress 0, and a reading at the node just reached.
C10_AdvanceBeforeStop ==
  NewlyIdling =>
    /\ veh.current_edge_index = pre.current_edge_index + 1
    /\ veh.progress_on_edge = 0
    /\ telemetry.longitude = pre.route[pre.current_edge_index + 2][1] * 1000000
    /\ telemetry.latitude = pre.route[pre.current_edge_index + 2][2] * 1000000

\* A driving vehicle has stopped at the second intermediate node of a route.
C10_Witness ==
  /\ NewlyIdling
  /\ pre.state = "DRIVING"
  /\ veh.current_edge_index = 2

\* The trip was assigned at 60 kph, is ticked with 60 seconds (one edge of
\* 1 km per tick) and no stop has been drawn on it.
EdgePerTickNoStop ==
  /\ trip.speed = 60
  /\ time_step_seconds = 60
  /\ trip.stops = 0

ExampleRoute == << <<0, 0>>, <<1, 0>>, <<2, 0>> >>

\* C11: at 60 kph with 60-second ticks and no stop drawn, a vehicle
\* assigned a route of N >= 2 nodes is Driving at edge index k with progress
\* 0 after tick k for every k < N-1 and Parked from tick N-1 on; on the
\* route [(0,0),(1,0),(2,0)] it is at edge index 1 after tick 1 and Parked
\* after tick 2.
C11_OneEdgePerTick ==
  EdgePerTickNoStop =>
    /\ ticks < Len(veh.route) - 1 =>
         /\ veh.state = "DRIVING"
         /\ veh.current_edge_index = ticks
         /\ veh.progress_on_edge = 0
    /\ ticks >= Len(veh.route) - 1 => veh.state = "PARKED"
    /\ (veh.route = ExampleRoute /\ ticks = 1) =>
         veh.state = "DRIVING" /\ veh.current_edge_index = 1
    /\ (veh.route = ExampleRoute /\ ticks = 2) => veh.state = "PARKED"

\* The example route has been driven to its end in two ticks.
C11_Witness ==
  /\ EdgePerTickNoStop
  /\ veh.route = ExampleRoute
  /\ ticks = 2
  /\ op = "tick"
  /\ pre.state = "DRIVING"
  /\ pre.current_edge_index = 1
  /\ veh.state = "PARKED"

\* The vehicles (1-based, fleet order) that have been through the body of
\* the vehicle loop, life-cycle management and tick(), in the current tick
\* of the run, and those that have not yet been through it.
ProcessedThisTick ==
  IF pc = "vehicles" THEN 1 .. vidx - 1
  ELSE IF pc = "flush" THEN 1 .. Len(vehicles)
  ELSE {}
AwaitingThisTick ==
  IF pc = "vehicles" THEN vidx .. Len(vehicles) ELSE {}

\* C12 as stated: in every tick of a run, life-cycle management for all
\* Parked vehicles of the fleet is completed before tick() is called on any
\* vehicle: once a vehicle has been ticked in the current tick, no Parked
\* vehicle still awaits its life-cycle management of that tick.
C12_Original ==
  ProcessedThisTick # {} =>
    \A j \in AwaitingThisTick : vehicles[j].state # "PARKED"

\* A trip has been assigned and not ticked yet.
FreshTrip(v) ==
  /\ v.state = "DRIVING"
  /\ v.current_edge_index = 0
  /\ v.progress_on_edge = 0

\* C12 as amended: the vehicles are taken one at a time in fleet order, and
\* for each of them life-cycle management is completed before its own
\* tick(): a pass of the vehicle loop changes only the vehicle at vidx; the
\* trip a Parked vehicle is given in the pass has already been ticked at the
\* end of the pass, and the reading of the pass is that of the vehicle after
\* its tick; the vehicles after vidx are as the previous tick left them.
C12_LifecycleThenTickPerVehicle ==
  [][ pc = "vehicles" =>
        /\ \A j \in 1 .. Len(vehicles) :
             j # vidx => vehicles'[j] = vehicles[j]
        /\ ProcessedThisTick' = ProcessedThisTick \cup {vidx}
        /\ vehicles[vidx].state = "PARKED" => ~FreshTrip(vehicles'[vidx])
        /\ telemetry_log'[Len(telemetry_log')] =
             CreateTelemetryReading(vehicles'[vidx], current_sim_time)
    ]_vars

\* In the first tick of a run the first vehicle has been given a trip and
\* ticked along it while the second vehicle, Parked, has not been managed.
C12_Witness ==
  /\ pc = "vehicles"
  /\ tick = 0
  /\ vidx = 2
  /\ vehicles[1].state = "DRIVING"
  /\ vehicles[1].current_edge_index = 1
  /\ vehicles[2].state = "PARKED"
  /\ vehicles[2].route = << >>

\* The passes <<tick, vehicle>> of the vehicle loop the run has been through.
CompletedPasses ==
  { <<k, j>> : k \in 0 .. tick - 1, j \in 1 .. Len(vehicles) }
  \cup { <<tick, j>> : j \in ProcessedThisTick }

\* The log holds a reading of vehicle j stamped with tick k.
Logged(k, j) ==
  \E i \in 1 .. Len(telemetry_log) :
    /\ telemetry_log[i].vehicle_id = vehicles[j].vehicle_id
    /\ telemetry_log[i].timestamp = k * time_step_seconds

IsSuffix(s, t) ==
  Len(s) <= Len(t) /\ SubSeq(t, Len(t) - Len(s) + 1, Len(t)) = s

\* C13: a tick() that raises in a pass of the vehicle loop does not abort
\* the run: the loop goes on to the other vehicles of that tick and to all
\* later ticks, the run returns after all its ticks, and the log and the
\* buffer miss the reading of the failing pass and no other reading.
C13_TickFaultIsolated ==
  /\ faults # {} => pc \in {"vehicles", "flush", "final", "done"}
  /\ pc \in {"vehicles", "flush", "final", "done"} =>
       /\ faults \subseteq CompletedPasses
       /\ \A p \in CompletedPasses : Logged(p[1], p[2]) <=> p \notin faults
       /\ Len(telemetry_log) = Cardinality(CompletedPasses \ faults)
       /\ IsSuffix(telemetry_buffer, telemetry_log)
       /\ pc \in {"final", "done"} => tick = total_simulation_ticks

\* A run of two vehicles and two ticks has returned; the tick() of the
\* first vehicle raised in the first tick and the three other passes are in
\* the log.
C13_Witness ==
  /\ pc = "done"
  /\ faults = { <<0, 1>> }
  /\ Len(vehicles) = 2
  /\ total_simulation_ticks = 2
  /\ Len(telemetry_log) = 3
  /\ Logged(0, 2) /\ Logged(1, 1) /\ Logged(1, 2)

\* C14: a run performs exactly duration_minutes * 60 / time_step_seconds
\* ticks, rounded down; without failing ticks the telemetry log holds one
\* reading per vehicle per tick gone through, in fleet order within a tick;
\* the readings of tick k carry the time start + k * time_step_seconds; no
\* two readings of the log have the same vehicle_id and timestamp.
C14_OneReadingPerVehiclePerTick ==
  pc \in {"vehicles", "flush", "final", "done"} =>
    /\ total_simulation_ticks * time_step_seconds <= duration_minutes * 60
    /\ duration_minutes * 60 < (total_simulation_ticks + 1) * time_step_seconds
    /\ tick <= total_simulation_ticks
    /\ pc \in {"vehicles", "flush"} => tick < total_simulation_ticks
    /\ pc \in {"final", "done"} => tick = total_simulation_ticks
    /\ Len(telemetry_log) = Cardinality(CompletedPasses)
    /\ \A i \in 1 .. Len(telemetry_log) :
         /\ telemetry_log[i].vehicle_id =
              vehicles[((i - 1) % Len(vehicles)) + 1].vehicle_id
         /\ telemetry_log[i].timestamp =
              ((i - 1) \div Len(vehicles)) * time_step_seconds
    /\ \A i, j \in 1 .. Len(telemetry_log) :
         (/\ telemetry_log[i].vehicle_id = telemetry_log[j].vehicle_id
          /\ telemetry_log[i].timestamp = telemetry_log[j].timestamp) => i = j

\* A run of 3 minutes in steps of 90 seconds has returned after 2 ticks
\* with the 4 readings of its 2 vehicles; a run of 1 minute in steps of 90
\* seconds would return after no tick.
C14_Witness ==
  /\ pc = "done"
  /\ duration_minutes = 3
  /\ time_step_seconds = 90
  /\ total_simulation_ticks = 2
  /\ Len(vehicles) = 2
  /\ Len(telemetry_log) = 4
  /\ telemetry_log[3].timestamp = 90
  /\ telemetry_log[3].vehicle_id = "V-OPPORTUNIST-001"
  /\ telemetry_log[4].vehicle_id = "V-THIEF-002"

\* C15: when a run has returned normally, every reading of the telemetry
\* log has been handed to stream_telemetry_batch in at least one call; the
\* readings still buffered after the last tick are handed over by the final
\* flush.
C15_EveryReadingHandedToSink ==
  pc = "done" =>
    /\ \A i \in 1 .. Len(telemetry_log) : telemetry_log[i] \in sink
    /\ telemetry_buffer # << >> => last_send.readings = telemetry_buffer

\* A run of one vehicle and two ticks with batch size 3 never filled its
\* buffer; the only call is the final flush, with both readings.
C15_Witness ==
  /\ pc = "done"
  /\ batch_size = 3
  /\ Len(telemetry_log) = 2
  /\ SendAttempts(stats) = 1
  /\ last_send.readings = telemetry_log
  /\ telemetry_buffer = telemetry_log

\* C16: life-cycle management leaves a vehicle that is not Parked as it
\* is; a Parked vehicle at or below its refuel threshold is either left
\* as it is or set to drive, from its last position, a route that ends at
\* a refueling station of the world: it gets no other trip, also when no
\* station can be routed to.
RoutedToStation(before, after, stations) ==
  /\ after.state = "DRIVING"
  /\ Len(after.route) >= 2
  /\ \E i \in 1 .. Len(stations) : after.route[Len(after.route)] = stations[i]
  /\ before.route # << >> => after.route[1] = before.route[Len(before.route)]

C16_LifecyclePriority ==
  op = "manage_vehicle_lifecycle" =>
    /\ pre.state # "PARKED" => veh = pre
    /\ (pre.state = "PARKED" /\ NeedsRefueling(pre)) =>
         (veh = pre \/ RoutedToStation(pre, veh, refueling_stations))

\* A Parked vehicle below its threshold was routed to a station.
C16_Witness ==
  /\ op = "manage_vehicle_lifecycle"
  /\ pre.state = "PARKED"
  /\ NeedsRefueling(pre)
  /\ RoutedToStation(pre, veh, refueling_stations)

\* A Parked vehicle below its threshold, with fuel for a random trip, was
\* left Parked because the refuel routing failed.
C16_WitnessRoutingFails ==
  /\ op = "manage_vehicle_lifecycle"
  /\ pre.state = "PARKED"
  /\ NeedsRefueling(pre)
  /\ veh = pre
  /\ AssignRandomTrip(pre) # { pre }

\* A Driving or Idling vehicle was handed to life-cycle management.
C16_WitnessNotParked ==
  /\ op = "manage_vehicle_lifecycle"
  /\ pre.state \in {"DRIVING", "IDLING"}

\* C17: life-cycle management of a Parked vehicle above its refuel
\* threshold makes at most 20 calls of get_random_route, whatever it
\* draws; it either leaves the vehicle as it is, Parked, or sets it to
\* drive a route whose length in km (nodes - 1) is at most 90 % of
\* fuel_liters * mileage_kmpl.  (n km are within 90 % of the range when
\* the fuel, in 1/FuelScale liter, is at least
\* n * FuelScale / (0.9 * mileage_kmpl).)
RandomTripManaged ==
  /\ op = "manage_vehicle_lifecycle"
  /\ pre.state = "PARKED"
  /\ ~NeedsRefueling(pre)

WithinSafeRange(before, after) ==
  /\ after.state = "DRIVING"
  /\ Len(after.route) >= 2
  /\ ((Len(after.route) - 1) * 10 * (FuelScale \div 9))
        \div before.mileage_kmpl <= before.fuel_liters

C17_RandomTripWithinSafeRange ==
  /\ RandomTripManaged => (veh = pre \/ WithinSafeRange(pre, veh))
  /\ (veh.state = "PARKED" /\ ~NeedsRefueling(veh)) =>
       \A m \in RandomTripOutcomes(veh) :
         /\ m.attempts <= 20
         /\ m.route = NoRoute => m.attempts = 20
         /\ m.route # NoRoute => WithinSafeRange(veh, AfterRandomTrip(veh, m))

\* A trip that takes more than half of the safe range was assigned.
C17_Witness ==
  /\ RandomTripManaged
  /\ WithinSafeRange(pre, veh)
  /\ ((Len(veh.route) - 1) * 20 * (FuelScale \div 9))
        \div pre.mileage_kmpl > pre.fuel_liters

\* No attempt fitted: the vehicle was left Parked, after 20 attempts.
C17_WitnessNoneFits ==
  /\ RandomTripManaged
  /\ veh = pre
  /\ RandomTripOutcomes(pre) = { [route |-> NoRoute, attempts |-> 20] }

\* C18 as stated: when two runs of the same fleet with the same arguments
\* and the same random draws have ended, their telemetry logs are
\* identical and their anomaly logs are identical.
BothRunsDone == pc = "done" /\ replay.vehicles # << >>

Shifted(record, offset) == [record EXCEPT !.timestamp = @ + offset]

ShiftedLog(log, offset) == [i \in 1 .. Len(log) |-> Shifted(log[i], offset)]

C19_Original ==
  /\ 0 <= veh.current_edge_index
  /\ veh.current_edge_index <= Len(veh.route) - 1

\* C19: in every state reached by assign_new_trip, tick and refuel calls,
\* current_edge_index is at least 0 and, while the vehicle has a route,
\* at most len(route) - 1.
C19_EdgeIndexWithinRoute ==
  /\ 0 <= veh.current_edge_index
  /\ veh.route # << >> => veh.current_edge_index <= Len(veh.route) - 1

\* A vehicle that had advanced on a route was assigned a route of fewer
\* than 2 nodes: it has no route and the edge index of the trip before.
C19_Witness ==
  /\ op = "assign_new_trip"
  /\ veh.route = << >>
  /\ veh.current_edge_index > 0

\* The tick just made drove the vehicle: after the idle countdown it was
\* DRIVING on a route with an edge left.
DrivenInTick ==
  /\ op = "tick"
  /\ UpdateTimedStates(pre, inp.delta).state = "DRIVING"
  /\ HasActiveRoute(UpdateTimedStates(pre, inp.delta))

\* Fuel after the consumption of the tick, before a theft of the same tick.
FuelAfterConsumption ==
  IF theft # NoTheft THEN theft.fuel_before ELSE veh.fuel_liters

\* Progress gained on the edge by the tick, after the clamp at 1.0
\* (1/3600 of an edge).
ProgressGained ==
  ApplyDrivingPhysics(UpdateTimedStates(pre, inp.delta), inp.delta)
    .v.progress_on_edge - pre.progress_on_edge

\* C20: in a tick in which the vehicle drives (and which does not empty
\* the tank), the fuel consumed is the distance travelled divided by
\* mileage_kmpl, the distance travelled being the progress gained on the
\* edge after the clamp at 1.0 times the edge length.
C20_FuelForDistanceTravelled ==
  (DrivenInTick /\ FuelAfterConsumption > 0) =>
    pre.fuel_liters - FuelAfterConsumption =
      ProgressGained * EDGE_LENGTH_KM
        * (FuelScale \div (SecondsPerHour * pre.mileage_kmpl))

\* C21: a tick with a delta that is not positive raises and leaves the
\* vehicle as it was (state, speed, fuel, timer, route, position); it
\* returns no reading and no anomaly.
C21_InvalidTickTouchesNothing ==
  op = "tick_raised" =>
    /\ veh.state = pre.state
    /\ veh.speed_kph = pre.speed_kph
    /\ veh.fuel_liters = pre.fuel_liters
    /\ veh.state_timer_seconds = pre.state_timer_seconds
    /\ veh.route = pre.route
    /\ veh.current_edge_index = pre.current_edge_index
    /\ veh.progress_on_edge = pre.progress_on_edge
    /\ telemetry = NoReading
    /\ anomaly = NoAnomaly

\* A vehicle driving in the middle of an edge was ticked with a negative
\* delta.
C21_Witness ==
  /\ op = "tick_raised"
  /\ inp.delta < 0
  /\ pre.state = "DRIVING"
  /\ pre.progress_on_edge > 0

\* An idling vehicle was ticked with a delta of 0.
C21_WitnessIdling ==
  /\ op = "tick_raised"
  /\ inp.delta = 0
  /\ pre.state = "IDLING"
  /\ pre.state_timer_seconds > 0

\* C22: assign_new_trip with a route of fewer than 2 nodes leaves the
\* vehicle Parked with speed 0, whatever it was doing; with a route of at
\* least 2 nodes the vehicle is Driving that route at the given speed from
\* edge 0, progress 0.  The fuel is as it was in both cases.
C22_AssignNewTripOutcome ==
  op = "assign_new_trip" =>
    /\ veh.fuel_liters = pre.fuel_liters
    /\ Len(trip.route) < 2 =>
         /\ veh.state = "PARKED"
         /\ veh.speed_kph = 0
    /\ Len(trip.route) >= 2 =>
         /\ veh.state = "DRIVING"
         /\ veh.speed_kph = trip.speed
         /\ veh.route = trip.route
         /\ veh.current_edge_index = 0
         /\ veh.progress_on_edge = 0

\* A vehicle that had advanced to a later edge of its route and used fuel
\* was given a new route of at least 2 nodes.
C22_Witness ==
  /\ op = "assign_new_trip"
  /\ Len(trip.route) >= 2
  /\ pre.current_edge_index > 0
  /\ pre.fuel_liters < CapacityUnits(pre)

\* A driving vehicle and an idling one were given a route of fewer than 2
\* nodes.
C22_WitnessShortRouteDriving ==
  /\ op = "assign_new_trip"
  /\ Len(trip.route) < 2
  /\ pre.state = "DRIVING"

C22_WitnessShortRouteIdling ==
  /\ op = "assign_new_trip"
  /\ Len(trip.route) < 2
  /\ pre.state = "IDLING"

\* C23: right after refuel(), whatever the vehicle was doing, fuel_liters
\* is the tank capacity (fuel percentage 100.0), the state is PARKED and
\* the speed is 0.
C23_RefuelFillsAndParks ==
  op = "refuel" =>
    /\ veh.fuel_liters = CapacityUnits(veh)
    /\ FuelPercentageRounded(veh) = 10000
    /\ veh.state = "PARKED"
    /\ veh.speed_kph = 0

\* A driving vehicle that had used fuel was refueled.
C23_Witness ==
  /\ op = "refuel"
  /\ pre.state = "DRIVING"
  /\ pre.speed_kph > 0
  /\ pre.fuel_liters < CapacityUnits(pre)

\* C24: a run_simulation call that raises before its tick loop has ticked
\* no vehicle and assigned no trip, sent no batch and no anomaly, and has
\* left the logs as they were; and a call gets to its tick loop only with
\* a fleet that is not empty and a positive duration and tick size.
RunCalled == pc \in {"engine", "done"} /\ pc' \notin {"engine", "done"}

C24_WitnessNoFleet ==
  /\ pc = "raised"
  /\ vehicles = << >>

\* C25: the pass of a vehicle whose tick returns an anomaly appends that
\* anomaly once to the anomaly log and hands it once to
\* stream_anomaly_event, before the pass of the next vehicle; the pass of
\* a vehicle whose tick returns none does neither; and no other step of
\* the run appends to the log or hands an anomaly over.
VehiclePassed == pc = "vehicles" /\ telemetry_log' # telemetry_log

C25_AnomalyLoggedAndStreamedOnce ==
  [][/\ VehiclePassed =>
          \E r \in VehiclePass(vehicles[vidx], refueling_stations,
                               current_sim_time, time_step_seconds) :
            /\ vehicles' = [vehicles EXCEPT ![vidx] = r.v]
            /\ telemetry_log' = Append(telemetry_log, r.telemetry)
            /\ IF r.anomaly # NoAnomaly
               THEN /\ anomaly_log' = Append(anomaly_log, r.anomaly)
                    /\ anomaly_sink' = Append(anomaly_sink, r.anomaly)
               ELSE UNCHANGED << anomaly_log, anomaly_sink >>
     /\ ~VehiclePassed => UNCHANGED << anomaly_log, anomaly_sink >>]_vars

\* The anomaly of the first vehicle is in the log and has been handed over
\* when the second vehicle is about to be processed.
C25_Witness ==
  /\ pc = "vehicles"
  /\ vidx = 2
  /\ anomaly_log # << >>
  /\ anomaly_log[Len(anomaly_log)].vehicle_id = vehicles[1].vehicle_id
  /\ anomaly_log[Len(anomaly_log)].timestamp = current_sim_time
  /\ anomaly_sink = anomaly_log

\* C26: after a create_vehicle_fleet(num_vehicles, profiles) call that
\* returns, the fleet has exactly num_vehicles vehicles, each PARKED with
\* a full tank; the vehicle at 0-based index i has the profile at position
\* i mod len(profiles) of the dictionary's order, and no two vehicles
\* share an id.
C26_FleetRoundRobin ==
  op = "create_vehicle_fleet" =>
    /\ Len(vehicles) = inp.num_vehicles
    /\ \A k \in 1 .. Len(vehicles) :
         /\ vehicles[k].state = "PARKED"
         /\ vehicles[k].fuel_liters =
              vehicles[k].tank_capacity_liters * FuelScale
         /\ vehicles[k].behavioral_profile =
              inp.profiles[((k - 1) % Len(inp.profiles)) + 1].profile
    /\ \A j, k \in 1 .. Len(vehicles) :
         j # k => vehicles[j].vehicle_id # vehicles[k].vehicle_id

\* Ten vehicles over two profiles: five of each, alternating.
C26_Witness ==
  /\ op = "create_vehicle_fleet"
  /\ Len(vehicles) = 10
  /\ Len(inp.profiles) = 2
  /\ Cardinality({ k \in 1 .. 10 :
         vehicles[k].behavioral_profile = inp.profiles[1].profile }) = 5
  /\ vehicles[9].behavioral_profile = inp.profiles[1].profile
  /\ vehicles[10].behavioral_profile = inp.profiles[2].profile

\* A call that raised left a fleet of another size than the one asked for.
C26_WitnessRaised ==
  /\ op = "create_vehicle_fleet_raised"
  /\ inp.num_vehicles = 0
  /\ Len(vehicles) = 3

\* C27: a get_random_route(min_distance) call on a grid of any accepted
\* shape returns: None, after at most 10 tries, or a route of at least
\* min_distance nodes between two distinct nodes that is as short as any
\* path between them, with consecutive nodes adjacent and no node twice.
IsRoute(route, width, height) ==
  /\ \A i \in 1 .. Len(route) : route[i] \in GridNodes(width, height)
  /\ route[1] # route[Len(route)]
  /\ Len(route) = PathLength(route[1], route[Len(route)]) + 1
  /\ \A i \in 1 .. Len(route) - 1 : Adjacent(route[i], route[i + 1])
  /\ \A i, j \in 1 .. Len(route) : i # j => route[i] # route[j]

RandomRouteCalled == op \in {"get_random_route", "get_random_route_raised"}

C27_RandomRouteOrNotFound ==
  RandomRouteCalled =>
    /\ op = "get_random_route"
    /\ \/ trip.route = NoRoute /\ inp.attempts <= RouteTries
       \/ /\ trip.route # NoRoute
          /\ Len(trip.route) >= inp.min_distance
          /\ IsRoute(trip.route, inp.width, inp.height)

\* C27, on grids of two nodes or more: every call returns, None only after
\* all 10 tries.
C27_RoutesOnGridsOfSeveralNodes ==
  (RandomRouteCalled /\ inp.width * inp.height >= 2) =>
    /\ op = "get_random_route"
    /\ \/ trip.route = NoRoute /\ inp.attempts = RouteTries
       \/ /\ trip.route # NoRoute
          /\ inp.attempts \in 1 .. RouteTries
          /\ Len(trip.route) >= inp.min_distance
          /\ IsRoute(trip.route, inp.width, inp.height)

C27_WitnessRaised ==
  op = "get_random_route_raised" /\ inp.width = 1 /\ inp.height = 1

C27_WitnessLateRoute ==
  /\ op = "get_random_route"
  /\ inp.attempts = RouteTries
  /\ Len(trip.route) = 4
  /\ trip.route[2][2] # trip.route[1][2]

\* C28: a find_nearest_refueling_station(start_node) call raises when the
\* world has no station; otherwise it returns the first station of the
\* list among those at the least path length from start_node, with a path
\* from start_node to that station that is as short as any.
C28_NearestStationFirstOfClosest ==
  /\ op = "find_nearest_refueling_station_raised" =>
       refueling_stations = << >>
  /\ op = "find_nearest_refueling_station" =>
       /\ refueling_stations # << >>
       /\ \E i \in 1 .. Len(refueling_stations) :
            /\ trip.station = refueling_stations[i]
            /\ \A j \in 1 .. Len(refueling_stations) :
                 PathLength(inp.start_node, refueling_stations[i])
                   <= PathLength(inp.start_node, refueling_stations[j])
            /\ \A j \in 1 .. i - 1 :
                 PathLength(inp.start_node, refueling_stations[j])
                   > PathLength(inp.start_node, refueling_stations[i])
       /\ trip.route[1] = inp.start_node
       /\ trip.route[Len(trip.route)] = trip.station
       /\ Len(trip.route) = PathLength(inp.start_node, trip.station) + 1
       /\ \A k \in 1 .. Len(trip.route) - 1 :
            Adjacent(trip.route[k], trip.route[k + 1])

\* Two stations at the same path length, the first of the list returned.
C28_Witness ==
  /\ op = "find_nearest_refueling_station"
  /\ Len(refueling_stations) = 2
  /\ PathLength(inp.start_node, refueling_stations[1])
       = PathLength(inp.start_node, refueling_stations[2])
  /\ refueling_stations[1] # <<0, 0>>
  /\ trip.station = refueling_stations[1]
  /\ Len(trip.route) = 2

C28_WitnessNoStations ==
  op = "find_nearest_refueling_station_raised" /\ inp.start_node # <<0, 0>>

\* The station is where the call starts: a path of one node.
C28_WitnessAtStation ==
  op = "find_nearest_refueling_station" /\ trip.route = << trip.station >>

\* C29: during a run, stream_telemetry_batch is called only when the
\* vehicle loop of the tick is over: at a send the log ends with one
\* reading of every vehicle of the fleet, in fleet order, all of the same
\* tick, and no send happens while a vehicle of the tick is still to be
\* processed.
BatchSent ==
  /\ pc \in {"vehicles", "flush", "final"}
  /\ sink' # sink \/ last_send' # last_send \/ stats' # stats

WholeFleetInLastTick ==
  LET n == Len(vehicles)
      logged == Len(telemetry_log)
  IN  /\ logged >= n
      /\ logged % n = 0
      /\ \A k \in 1 .. n :
           /\ telemetry_log[logged - n + k].vehicle_id =
                vehicles[k].vehicle_id
           /\ telemetry_log[logged - n + k].timestamp =
                telemetry_log[logged].timestamp

C29_BatchSentAfterWholeFleet ==
  [][BatchSent => (pc # "vehicles" /\ WholeFleetInLastTick)]_vars

\* With a batch size of one and two vehicles the buffer has reached the
\* batch size after the first vehicle, and nothing has been sent; the
\* send comes after the second.
C29_Witness ==
  /\ pc = "vehicles"
  /\ Len(vehicles) = 2
  /\ batch_size = 1
  /\ tick = 1
  /\ vidx = 2
  /\ Len(telemetry_buffer) >= batch_size
  /\ last_send # NoSend
  /\ Len(last_send.readings) = 2

C29_WitnessNothingSentYet ==
  /\ pc = "vehicles"
  /\ Len(vehicles) = 2
  /\ batch_size = 1
  /\ tick = 0
  /\ vidx = 2
  /\ Len(telemetry_buffer) >= batch_size
  /\ last_send = NoSend
  /\ sink = {}

\* C30: the pass of one vehicle in a tick of a run leaves every other
\* vehicle of the fleet and the refueling stations as they were, and
\* leaves what the pass of every other vehicle can yield, state, reading
\* and anomaly for each of its draws, as it was before: whichever vehicle
\* is processed first, each vehicle's pass yields the same.
OtherVehicles == (1 .. Len(vehicles)) \ {vidx}

C30_PassTouchesOneVehicle ==
  [][VehiclePassed =>
       /\ Len(vehicles') = Len(vehicles)
       /\ refueling_stations' = refueling_stations
       /\ \A j \in OtherVehicles :
            /\ vehicles'[j] = vehicles[j]
            /\ VehiclePass(vehicles'[j], refueling_stations',
                           current_sim_time', time_step_seconds')
                 = VehiclePass(vehicles[j], refueling_stations,
                               current_sim_time, time_step_seconds)]_vars

\* The first of two vehicles has been given a trip and ticked; the second
\* is as create_vehicle_fleet made it.
C30_Witness ==
  /\ pc = "vehicles"
  /\ Len(vehicles) = 2
  /\ vidx = 2
  /\ tick = 0
  /\ vehicles[1].state = "DRIVING"
  /\ vehicles[1].route # << >>
  /\ vehicles[2].state = "PARKED"
  /\ vehicles[2].route = << >>

\* C31: a run that is stopped from outside stops at the top of the tick
\* loop, before the first vehicle of the next tick is processed, and the
\* readings of its buffer have been handed to stream_telemetry_batch.
AtTopOfTickLoop == pc = "vehicles" /\ vidx = 1

BufferFlushed ==
  \A i \in 1 .. Len(telemetry_buffer) : telemetry_buffer[i] \in sink'

C31_StoppedAtLoopTopAfterFlush ==
  [][pc' = "interrupted" => (AtTopOfTickLoop /\ BufferFlushed)]_vars

\* A run stopped between two vehicles of a tick, with a reading buffered
\* that no send has carried.
C31_WitnessStoppedMidTick ==
  /\ pc = "interrupted"
  /\ vidx = 2
  /\ telemetry_buffer # << >>
  /\ sink = {}
  /\ tick < total_simulation_ticks

\* A run stopped at the top of the loop with the buffer unsent.
C31_WitnessStoppedAtTopUnsent ==
  /\ pc = "interrupted"
  /\ vidx = 1
  /\ tick = 1
  /\ tick < total_simulation_ticks
  /\ telemetry_buffer # << >>
  /\ telemetry_buffer[1] \notin sink

\* C32: after construction and after every assign_new_trip, refuel and
\* tick, a vehicle that is IDLING or PARKED has speed_kph = 0, and the
\* reading of a tick the vehicle ends IDLING or PARKED has speed_kph = 0.
Stationary(v) == v.state \in {"IDLING", "PARKED"}

C32_StationaryMeansSpeedZero ==
  /\ Stationary(veh) => veh.speed_kph = 0
  /\ (op = "tick" /\ Stationary(veh)) => telemetry.speed_kph = 0

\* A tick in which a vehicle driving at 120 kph stops at a node.
C32_Witness ==
  /\ op = "tick"
  /\ pre.state = "DRIVING"
  /\ pre.speed_kph = 120
  /\ veh.state = "IDLING"
  /\ telemetry.speed_kph = 0

\* A tick in which a vehicle driving at 120 kph completes its trip.
C32_WitnessParked ==
  /\ op = "tick"
  /\ pre.state = "DRIVING"
  /\ pre.speed_kph = 120
  /\ veh.state = "PARKED"
  /\ telemetry.speed_kph = 0

\* C33: in the tick in which the timer of an IDLING vehicle runs out the
\* vehicle drives at the default speed of 60 kph, whatever the speed its
\* trip was assigned with: within that tick it gains the progress of 60
\* kph over the tick on its edge (and may so reach the next node), it is
\* charged the fuel of that distance and not the idle consumption, and
\* when it ends the tick DRIVING its speed is 60 kph.
ResumedGain == (DEFAULT_SPEED_KPH * inp.delta) \div EDGE_LENGTH_KM

ResumedLiters ==
  (DEFAULT_SPEED_KPH * inp.delta)
    * (FuelScale \div (SecondsPerHour * pre.mileage_kmpl))

FuelBeforeTheft ==
  IF theft # NoTheft THEN theft.fuel_before ELSE veh.fuel_liters

C33_ResumesAtDefaultSpeedInSameTick ==
  TimerExpired =>
    /\ veh.state = "DRIVING" => veh.speed_kph = DEFAULT_SPEED_KPH
    /\ \/ /\ veh.current_edge_index = pre.current_edge_index
          /\ veh.progress_on_edge =
               Min(pre.progress_on_edge + ResumedGain, ProgressScale)
          /\ veh.progress_on_edge > pre.progress_on_edge
       \/ /\ veh.current_edge_index = pre.current_edge_index + 1
          /\ pre.progress_on_edge + ResumedGain >= ProgressScale
          /\ veh.progress_on_edge = 0
    /\ FuelBeforeTheft = Max(0, pre.fuel_liters - ResumedLiters)

\* A trip assigned at 120 kph: the vehicle is half an edge further, at 60
\* kph, after the tick of 30 s in which its timer ran out, and has burnt
\* the fuel of half a kilometer.
C33_Witness ==
  /\ TimerExpired
  /\ trip.speed = 120
  /\ inp.delta = 30
  /\ veh.state = "DRIVING"
  /\ veh.speed_kph = DEFAULT_SPEED_KPH
  /\ veh.progress_on_edge = ProgressScale \div 2
  /\ veh.fuel_liters = pre.fuel_liters - ResumedLiters
  /\ veh.fuel_liters > 0

\* The resumed vehicle reaches the next node in the same tick and stops
\* again.
C33_WitnessNextNode ==
  /\ TimerExpired
  /\ inp.delta = 60
  /\ veh.state = "IDLING"
  /\ veh.current_edge_index = pre.current_edge_index + 1

\* C34: no pass of the vehicle loop raises a vehicle's fuel, and a vehicle
\* that is PARKED with fuel at or below its refueling threshold at the end
\* of its route, on a node that is a refueling station (its own nearest
\* one, at distance 0), comes out of every pass as it went in: PARKED, on
\* the same route, with the same fuel; so it stays for the rest of the run.
StrandedAtStation(v) ==
  /\ v.state = "PARKED"
  /\ NeedsRefueling(v)
  /\ v.route # << >>
  /\ \E i \in 1 .. Len(refueling_stations) :
       refueling_stations[i] = v.route[Len(v.route)]

C34_NeverRefueled ==
  [][/\ veh'.fuel_liters <= veh.fuel_liters
     /\ StrandedAtStation(veh) => veh' = veh]_vars

\* A vehicle that was stranded at a station before the pass, and is so
\* after it.
C34_Witness ==
  /\ op = "pass"
  /\ StrandedAtStation(pre)
  /\ StrandedAtStation(veh)
  /\ veh.fuel_liters > 0

\* The vehicle came to the station on the trip the engine gave it for
\* refueling, and parked there in this pass.
C34_WitnessArrived ==
  /\ op = "pass"
  /\ pre.state = "DRIVING"
  /\ NeedsRefueling(pre)
  /\ StrandedAtStation(veh)

\* C35: a tick moves a vehicle by one edge at most, however large
\* speed_kph * delta is: current_edge_index stays or grows by 1, the
\* progress on an edge never passes the edge's end, and a vehicle that has
\* entered the next edge starts it at progress 0, what it drove beyond the
\* node being dropped.
C35_AtMostOneEdgePerTick ==
  op = "tick" =>
    /\ veh.current_edge_index \in
         {pre.current_edge_index, pre.current_edge_index + 1}
    /\ veh.progress_on_edge \in 0 .. ProgressScale
    /\ veh.current_edge_index = pre.current_edge_index + 1 =>
         veh.progress_on_edge = 0

\* Two kilometers' worth of driving in one tick, from the start of the
\* first edge of a route of three edges: the vehicle is at the start of
\* the second edge.
C35_Witness ==
  /\ op = "tick"
  /\ pre.state = "DRIVING"
  /\ pre.speed_kph * inp.delta = 2 * SecondsPerHour * EDGE_LENGTH_KM
  /\ pre.progress_on_edge = 0
  /\ pre.current_edge_index = 0
  /\ Len(pre.route) = 4
  /\ veh.current_edge_index = 1
  /\ veh.progress_on_edge = 0

\* C36: while the ticks of a run go on, the buffer is the end of the
\* telemetry log, and the part of the log before it is made of the batches
\* acknowledged with "success", in order: the boundary between the two
\* moves only in a step whose batch is acknowledged with "success", that
\* batch is exactly the readings of the log from the old boundary to the
\* log's end, and the buffer is empty after it.  So no reading is in two
\* acknowledged batches and none leaves the buffer unacknowledged.
Acknowledged == Len(telemetry_log) - Len(telemetry_buffer)

BufferEndsLog ==
  /\ Acknowledged >= 0
  /\ telemetry_buffer =
       SubSeq(telemetry_log, Acknowledged + 1, Len(telemetry_log))

TicksGoOn == pc \in {"vehicles", "flush"}

C36_LogIsAcknowledgedThenBuffer ==
  [][TicksGoOn =>
       /\ BufferEndsLog
       /\ BufferEndsLog'
       /\ IF BatchPosted /\ last_send'.status = "success"
          THEN /\ last_send'.readings =
                    SubSeq(telemetry_log, Acknowledged + 1,
                           Len(telemetry_log))
               /\ telemetry_log' = telemetry_log
               /\ telemetry_buffer' = << >>
          ELSE /\ Acknowledged' = Acknowledged
               /\ IsPrefix(telemetry_log, telemetry_log')]_vars

\* A batch has been acknowledged, readings have been buffered after it,
\* and a second batch with only those readings has been acknowledged.
C36_Witness ==
  /\ pc = "vehicles"
  /\ tick = 2
  /\ telemetry_buffer = << >>
  /\ last_send.status = "success"
  /\ Len(last_send.readings) < Len(telemetry_log)
  /\ stats.failed_requests = 0
  /\ stats.total_batches_sent = 2

\* A batch that failed was sent again with the readings of the next tick
\* and acknowledged whole.
C36_WitnessAfterFailure ==
  /\ pc \in {"vehicles", "final"}
  /\ tick = 2
  /\ telemetry_buffer = << >>
  /\ last_send.status = "success"
  /\ last_send.readings = telemetry_log
  /\ stats.failed_requests = 1

\* C37: telemetry_store never holds two readings with the same
\* (vehicle_id, timestamp), however the /ingest requests and their
\* background tasks follow one another.
C37_NoDuplicateInStore ==
  \A i, j \in 1 .. Len(telemetry_store) :
    i # j => ReadingKey(telemetry_store[i]) # ReadingKey(telemetry_store[j])

\* The same reading waits in two scheduled tasks: a batch was sent again
\* before its first copy was stored.
C37_WitnessScheduledTwice ==
  /\ Len(background_tasks) = 2
  /\ background_tasks[1] = background_tasks[2]
  /\ telemetry_store = << >>

\* A reading sent again after it was stored is not stored again.
C37_WitnessDuplicateDropped ==
  /\ Len(telemetry_store) = 1
  /\ Len(background_tasks) = 1
  /\ \A i \in 1 .. Len(background_tasks[1]) :
       ReadingKey(background_tasks[1][i]) # ReadingKey(telemetry_store[1])

\* C38: an empty tank does not stop a DRIVING vehicle: the tick of a
\* DRIVING vehicle with fuel_liters = 0 moves it on its edge by its speed
\* times the tick, up to the edge's end, as with any fuel (it then stays
\* on the edge, enters the next one or parks at the end of the route),
\* and a trip on which the tank runs empty is over, the vehicle PARKED,
\* within the ticks any trip of its length takes.
DrivingOnEmpty ==
  /\ op = "tick"
  /\ pre.state = "DRIVING"
  /\ pre.fuel_liters = 0

EmptyGain == (pre.speed_kph * inp.delta) \div EDGE_LENGTH_KM

C38_EmptyTankKeepsDriving ==
  /\ DrivingOnEmpty =>
       /\ veh.fuel_liters = 0
       /\ \/ /\ veh.state = "DRIVING"
             /\ veh.speed_kph = pre.speed_kph
             /\ veh.current_edge_index = pre.current_edge_index
             /\ veh.progress_on_edge = pre.progress_on_edge + EmptyGain
             /\ veh.progress_on_edge < ProgressScale
          \/ /\ veh.state \in {"DRIVING", "IDLING"}
             /\ veh.current_edge_index = pre.current_edge_index + 1
             /\ pre.progress_on_edge + EmptyGain >= ProgressScale
          \/ /\ veh.state = "PARKED"
             /\ veh.current_edge_index = Len(veh.route) - 2
             /\ pre.progress_on_edge + EmptyGain >= ProgressScale
  /\ (veh.fuel_liters = 0
        /\ ticks >= TripTickBound(Len(veh.route), time_step_seconds)) =>
       veh.state = "PARKED"

\* The vehicle drove a route of three edges on an empty tank and parked
\* at its end.
C38_Witness ==
  /\ DrivingOnEmpty
  /\ veh.state = "PARKED"
  /\ Len(veh.route) = 4
  /\ veh.current_edge_index = 2

\* The vehicle moved half an edge on an empty tank.
C38_WitnessMidEdge ==
  /\ DrivingOnEmpty
  /\ veh.state = "DRIVING"
  /\ veh.current_edge_index = pre.current_edge_index
  /\ veh.progress_on_edge > pre.progress_on_edge

\* The vehicle entered the next edge on an empty tank.
C38_WitnessNextEdge ==
  /\ DrivingOnEmpty
  /\ veh.state = "DRIVING"
  /\ veh.current_edge_index = pre.current_edge_index + 1
====
